---------------------------- MODULE Spec2Model ----------------------------
(***************************************************************************)
(* Model of the Dilithium signature aggregation prototypes of qbitcoin:    *)
(*   research/dilithium-aggregation/prototypes/aggregation_prototype.{h,cpp}*)
(*     DilithiumAggregatorPrototype (AddSignature, Aggregate,              *)
(*     VerifyAggregated, ClearBatch) and ResearchUtils::RunScalabilityTest *)
(*   research/dilithium-aggregation/prototypes/advanced_aggregation.{h,cpp}*)
(*     AdvancedDilithiumAggregator (UltraAggregate, UltraVerify)           *)
(*                                                                         *)
(* Representation of values.                                               *)
(*   unsigned char   an integer 0..255                                     *)
(*   uint32_t        its 4 bytes, least significant first, when it may     *)
(*                   exceed 2^31-1; an integer when it is known < 2^31     *)
(*   uint64_t        its 8 bytes, least significant first                  *)
(*   uint256         its 4 uint64_t words (std::array<uint64_t, 4>)        *)
(*   std::vector<unsigned char>  a record [size, head, fill]: the vector   *)
(*                   of `size` bytes whose first Len(head) bytes are head  *)
(*                   and whose other bytes all equal fill                  *)
(***************************************************************************)
EXTENDS Integers, Sequences, FiniteSets, TLC

(***************************************************************************)
(* Bounds of the model.                                                    *)
(***************************************************************************)
\* longest pending batch built in the life-cycle specification
MaxBatch == 2
\* most Aggregate() calls that record a benchmark in one behaviour
MaxBenchmarks == 2
\* longest list of entries the verification specification aggregates
MaxLen == 2
\* threads that call a verifier at the same time
MaxThreads == 2
\* calls each thread makes
MaxCalls == 2
\* calls of the primitive's KeyGen
MaxKeyGen == 3
\* CQKey objects of a program
MaxKeys == 2
\* inputs of a transaction
MaxInputs == 2
\* the argument max_signatures of RunScalabilityTest (1000 by default)
MaxSignatures == 256

(***************************************************************************)
(* Program constants.                                                      *)
(***************************************************************************)
DILITHIUM_Q == 8380417
DILITHIUM_N == 256

(***************************************************************************)
(* Bytes and byte vectors.                                                 *)
(***************************************************************************)
ByteVec(n, h, f) == [size |-> n, head |-> h, fill |-> f]

\* v[i], 0 <= i < v.size
ByteAt(v, i) == IF i < Len(v.head) THEN v.head[i + 1] ELSE v.fill

Pow2(k) == 2 ^ k

\* bit b of byte x
BitOf(x, b) == (x \div Pow2(b)) % 2

\* x with bit b flipped, x a byte
FlipBit(x, b) == IF BitOf(x, b) = 1 THEN x - Pow2(b) ELSE x + Pow2(b)

\* bit k of a ^ b
XorBit(a, b, k) == (BitOf(a, k) + BitOf(b, k)) % 2

\* a ^ b for two values < 16, tabulated
XorNibble ==
    [a \in 0..15 |-> [b \in 0..15 |->
        XorBit(a, b, 0) + 2 * XorBit(a, b, 1) + 4 * XorBit(a, b, 2)
            + 8 * XorBit(a, b, 3)]]

\* a ^ b for two bytes
XorByte(a, b) ==
    16 * XorNibble[a \div 16][b \div 16] + XorNibble[a % 16][b % 16]

\* the 4 bytes of a value < 2^31, least significant first
U32LE(val) ==
    << val % 256, (val \div 256) % 256, (val \div 65536) % 256,
       (val \div 16777216) % 256 >>

(***************************************************************************)
(* uint256 (simple_uint256.h).                                             *)
(***************************************************************************)
Word64(b) == << b, 0, 0, 0, 0, 0, 0, 0 >>

ZeroWord == Word64(0)

\* uint256(): data{0, 0, 0, 0}
Uint256Zero == << ZeroWord, ZeroWord, ZeroWord, ZeroWord >>

\* uint256::GetUint64(index): data[index] for 0 <= index < 4, else 0
GetUint64(h, index) == IF index >= 0 /\ index < 4 THEN h[index + 1] ELSE ZeroWord

(***************************************************************************)
(* The external lattice-signature primitive: Sign and Verify are a black   *)
(* box.  The model fixes one signature per (public key, digest) pair and   *)
(* lets Verify accept exactly that signature.                              *)
(***************************************************************************)
SignatureOf(pubkey, message_hash) ==
    ByteVec(3309,
            << ByteAt(pubkey, 0), ByteAt(pubkey, 8), message_hash[1][1],
               message_hash[2][1], message_hash[3][1], message_hash[4][1] >>,
            (ByteAt(pubkey, 0) + message_hash[1][1]) % 256)

PrimitiveVerify(pubkey, message_hash, signature) ==
    /\ pubkey.size = 1952
    /\ signature = SignatureOf(pubkey, message_hash)

(***************************************************************************)
(* Test vectors: the public keys, digests and entries the actions draw     *)
(* their arguments from.                                                   *)
(***************************************************************************)
Digest(a, b, c, d) == << Word64(a), Word64(b), Word64(c), Word64(d) >>

H1 == Digest(7, 0, 0, 0)
\* H2 and H3 differ, with the same word 0 and the same xor of their words
H2 == Digest(5, 1, 0, 0)
H3 == Digest(5, 0, 1, 0)

PKA == ByteVec(1952, << 1, 2, 3, 4, 5, 6, 7, 8, 9 >>, 0)
\* PKA2 differs from PKA in byte 8 only
PKA2 == ByteVec(1952, << 1, 2, 3, 4, 5, 6, 7, 8, 10 >>, 0)
\* PKB differs from PKA in byte 0
PKB == ByteVec(1952, << 2, 2, 3, 4, 5, 6, 7, 8, 9 >>, 0)

EmptyVec == ByteVec(0, << >>, 0)

\* QPubKey() / CQPubKey(): Invalidate() fills vch with 0xFF
InvalidPubKey == ByteVec(1952, << >>, 255)

\* the public key of the n-th key pair the primitive's KeyGen returns; its
\* secret key is written n, and a signature made with it is
\* SignatureOf(PubKeyOfPair(n), digest)
PubKeyOfPair(n) == ByteVec(1952, << n >>, 0)

Entry(sig, pk, h) == [signature |-> sig, pubkey |-> pk, message_hash |-> h]

ValidEntry(pk, h) == Entry(SignatureOf(pk, h), pk, h)

\* arguments of AddSignature in the life-cycle specification
Inputs ==
    { ValidEntry(PKA, H1),                              \* verifies
      ValidEntry(PKB, H2),                              \* verifies
      Entry(SignatureOf(PKA, H1), PKA, H2),             \* signature of another digest
      Entry(ByteVec(5, << 1, 2, 3, 4, 5 >>, 0), PKA, H1),  \* signature of 5 bytes
      Entry(SignatureOf(PKA, H1), ByteVec(4, << 1, 2, 3, 4 >>, 0), H1), \* key of 4 bytes
      Entry(EmptyVec, PKA, H1),                         \* empty signature
      Entry(SignatureOf(PKA, H1), EmptyVec, H1) }       \* empty public key

(***************************************************************************)
(* SimpleAggregatedSignature (aggregation_prototype.h).                    *)
(***************************************************************************)
\* SimpleAggregatedSignature(): signature_count(0), aggregation_timestamp(0)
SimpleAggregatedSignature ==
    [aggregated_data |-> << >>, message_hashes |-> << >>, pubkey_data |-> << >>,
     signature_count |-> 0, aggregation_timestamp |-> 0]

IsValid(s) ==
    /\ Len(s.aggregated_data) # 0
    /\ s.signature_count > 0
    /\ Len(s.message_hashes) = s.signature_count
    /\ Len(s.pubkey_data) = s.signature_count

(***************************************************************************)
(* DilithiumAggregatorPrototype::Aggregate, its pure part.                 *)
(***************************************************************************)
Min(a, b) == IF a < b THEN a ELSE b

\* component |= signature[j*4+k] << (k*8), for k < 4 and j*4+k < size
ProtoComponent(signature, j) ==
    [k \in 1..4 |->
        IF j * 4 + (k - 1) < signature.size
        THEN ByteAt(signature, j * 4 + (k - 1)) ELSE 0]

\* the sum kept to 23 bits with a mask in place of the modulus (the variant
\* C30 excludes: 2^23 - 1 is not below 8380417)
AddMasked23(acc, component) ==
    (acc + component[1] + 256 * component[2] + 65536 * component[3]) % 8388608

\* (acc + component) % 8380417 in uint32_t arithmetic: the sum wraps at 2^32.
\* acc < 2^23 is an integer, component is 4 bytes.
AddModQ(acc, component) ==
    LET low == acc + component[1] + 256 * component[2] + 65536 * component[3]
        high == (component[4] + (low \div 16777216)) % 256
        low24 == low % 16777216
    IN  (high * (16777216 % 8380417) + low24) % 8380417

\* The loops over a list are evaluated over the two halves of their range,
\* the first half first, which keeps the evaluation shallow for long lists.

\* one iteration of the loop over the pending signatures, for coefficient j
ProtoResponseStep(acc, signature, j) ==
    IF j < Min(signature.size \div 13, 256)
    THEN AddModQ(acc, ProtoComponent(signature, j))
    ELSE acc

\* aggregated_response[j] after the iterations lo..hi, from the value acc
RECURSIVE ProtoResponseFrom(_, _, _, _, _)
ProtoResponseFrom(signatures, j, acc, lo, hi) ==
    IF lo > hi THEN acc
    ELSE IF lo = hi THEN ProtoResponseStep(acc, signatures[lo], j)
    ELSE LET mid == (lo + hi) \div 2
             left == ProtoResponseFrom(signatures, j, acc, lo, mid)
         IN  IF left >= 0
             THEN ProtoResponseFrom(signatures, j, left, mid + 1, hi) ELSE 0

\* aggregated_response[j] after the loop over all pending signatures
ProtoAggregatedResponse(signatures, j) ==
    ProtoResponseFrom(signatures, j, 0, 1, Len(signatures))

\* std::hash<std::string> is implementation-defined; the model fixes one
\* deterministic function of the bytes, returned as the 8 bytes of a size_t.
\* hash_data is the concatenation of the 32 bytes of every hash; the model's
\* function mixes them hash by hash, word by word.
HashWord(w) ==
    (w[1] + 3 * w[2] + 5 * w[3] + 7 * w[4] + 11 * w[5] + 13 * w[6]
        + 17 * w[7] + 19 * w[8]) % 65536

HashStep(acc, h) ==
    (acc * 31 + HashWord(h[1]) + 257 * HashWord(h[2]) + 263 * HashWord(h[3])
        + 269 * HashWord(h[4]) + 7) % 16777216

RECURSIVE HashFrom(_, _, _, _)
HashFrom(hashes, acc, lo, hi) ==
    IF lo > hi THEN acc
    ELSE IF lo = hi THEN HashStep(acc, hashes[lo])
    ELSE LET mid == (lo + hi) \div 2
             left == HashFrom(hashes, acc, lo, mid)
         IN  IF left >= 0 THEN HashFrom(hashes, left, mid + 1, hi) ELSE 0

StdHash(hashes) ==
    LET v == HashFrom(hashes, 5381, 1, Len(hashes))
    IN  << v % 256, (v \div 256) % 256, (v \div 65536) % 256,
           Len(hashes) % 256, 0, 0, 0, 0 >>

\* hash_commitment: zero, its first 8 bytes overwritten by the hash value
\* when hash_data is not empty
HashCommitment(hashes) ==
    IF Len(hashes) # 0
    THEN << StdHash(hashes), ZeroWord, ZeroWord, ZeroWord >>
    ELSE Uint256Zero

\* the first 8 components of aggregated_response, 4 bytes each
ResponseBytes(signatures) ==
    U32LE(ProtoAggregatedResponse(signatures, 0))
        \o U32LE(ProtoAggregatedResponse(signatures, 1))
        \o U32LE(ProtoAggregatedResponse(signatures, 2))
        \o U32LE(ProtoAggregatedResponse(signatures, 3))
        \o U32LE(ProtoAggregatedResponse(signatures, 4))
        \o U32LE(ProtoAggregatedResponse(signatures, 5))
        \o U32LE(ProtoAggregatedResponse(signatures, 6))
        \o U32LE(ProtoAggregatedResponse(signatures, 7))

\* a layout that keeps one more byte for every signature (the variant C13
\* excludes: its size grows with the batch)
CompressedDataPerSignature(signatures, hashes) ==
    LET c == GetUint64(HashCommitment(hashes), 0)
    IN  << 81, Len(signatures) % 256 >> \o ResponseBytes(signatures)
            \o [k \in 1..Len(signatures) |-> 0] \o << c[1], c[2], c[3] >>

\* compressed_data: magic, count byte, 8 response words, 3 commitment bytes
CompressedData(signatures, hashes) ==
    LET c == GetUint64(HashCommitment(hashes), 0)
    IN  << 81, Len(signatures) % 256 >> \o ResponseBytes(signatures)
            \o << c[1], c[2], c[3] >>

\* the value Aggregate() returns for a non-empty batch at wall-clock time now
AggregateResult(signatures, pubkeys, hashes, now) ==
    [aggregated_data |-> CompressedData(signatures, hashes),
     message_hashes |-> hashes,
     pubkey_data |-> pubkeys,
     signature_count |-> Len(signatures),
     aggregation_timestamp |-> now]

\* the AggregationBenchmark Aggregate() records: of its fields the model
\* keeps signature_count (the sizes, the times and the ratio are left out)
Benchmark(signatures) == [signature_count |-> Len(signatures)]

(***************************************************************************)
(* DilithiumAggregatorPrototype::VerifyAggregated.                         *)
(***************************************************************************)
\* stored_hash: the last 3 bytes of compressed_data
StoredHash(compressed_data) ==
    LET n == Len(compressed_data)
    IN  << compressed_data[n - 2], compressed_data[n - 1], compressed_data[n] >>

\* expected_hash_commitment.GetUint64(0) & 0xFFFFFF
ExpectedHashTruncated(hashes) ==
    LET c == GetUint64(HashCommitment(hashes), 0) IN << c[1], c[2], c[3] >>

VerifyAggregated(agg_sig) ==
    IF ~IsValid(agg_sig) THEN FALSE
    ELSE IF Len(agg_sig.aggregated_data) < 35 THEN FALSE
    ELSE IF agg_sig.aggregated_data[1] # 81 THEN FALSE
    ELSE IF agg_sig.aggregated_data[2] # agg_sig.signature_count THEN FALSE
    ELSE StoredHash(agg_sig.aggregated_data)
            = ExpectedHashTruncated(agg_sig.message_hashes)

(***************************************************************************)
(* 64-bit words as 8 bytes, least significant first.                       *)
(***************************************************************************)
\* a ^ b
Xor64(a, b) ==
    << XorByte(a[1], b[1]), XorByte(a[2], b[2]), XorByte(a[3], b[3]),
       XorByte(a[4], b[4]), XorByte(a[5], b[5]), XorByte(a[6], b[6]),
       XorByte(a[7], b[7]), XorByte(a[8], b[8]) >>

\* byte i (1..8) of (w << k) | (w >> (64 - k)), for 0 < k < 8
RotlByte(w, k, i) ==
    LET below == IF i = 1 THEN w[8] ELSE w[i - 1]
    IN  ((w[i] * Pow2(k)) % 256) + (below \div Pow2(8 - k))

Rotl64(w, k) ==
    << RotlByte(w, k, 1), RotlByte(w, k, 2), RotlByte(w, k, 3),
       RotlByte(w, k, 4), RotlByte(w, k, 5), RotlByte(w, k, 6),
       RotlByte(w, k, 7), RotlByte(w, k, 8) >>

\* a ^ b for two values < 2^24
Xor24(a, b) ==
    XorByte(a % 256, b % 256)
        + 256 * XorByte((a \div 256) % 256, (b \div 256) % 256)
        + 65536 * XorByte((a \div 65536) % 256, (b \div 65536) % 256)

(***************************************************************************)
(* UltraCompressedSignature (advanced_aggregation.h).                      *)
(***************************************************************************)
ZeroU32 == << 0, 0, 0, 0 >>

\* UltraCompressedSignature(): magic_byte(0x51), signature_count(0),
\* verification_key(0), aggregated_z.resize(4), challenge_hash.resize(8)
UltraCompressedSignature ==
    [magic_byte |-> 81, signature_count |-> 0,
     aggregated_z |-> << ZeroU32, ZeroU32, ZeroU32, ZeroU32 >>,
     challenge_hash |-> ZeroWord, verification_key |-> ZeroWord]

UltraIsValid(s) == s.magic_byte = 81 /\ s.signature_count > 0

(***************************************************************************)
(* AdvancedDilithiumAggregator (advanced_aggregation.cpp).                 *)
(***************************************************************************)
\* the 4-byte component i of a signature: bytes 100 + 4 i + j, j < 4, that
\* lie inside the signature
UltraComponent(signature, i) ==
    << IF 100 + i * 4 < signature.size THEN ByteAt(signature, 100 + i * 4) ELSE 0,
       IF 101 + i * 4 < signature.size THEN ByteAt(signature, 101 + i * 4) ELSE 0,
       IF 102 + i * 4 < signature.size THEN ByteAt(signature, 102 + i * 4) ELSE 0,
       IF 103 + i * 4 < signature.size THEN ByteAt(signature, 103 + i * 4) ELSE 0 >>

\* (aggregated_response[i] + component) % DILITHIUM_Q in uint32_t arithmetic
UltraAddModQ(acc, component) ==
    LET low == acc + component[1] + 256 * component[2] + 65536 * component[3]
        high == (component[4] + (low \div 16777216)) % 256
        low24 == low % 16777216
    IN  (high * (16777216 % DILITHIUM_Q) + low24) % DILITHIUM_Q

\* one iteration of the loop over the signatures, for coefficient i
UltraResponseStep(acc, signature, i) ==
    IF signature.size < 3309 THEN acc
    ELSE IF i < DILITHIUM_N /\ i * 4 + 100 < signature.size
         THEN UltraAddModQ(acc, UltraComponent(signature, i))
         ELSE acc

RECURSIVE UltraResponseFrom(_, _, _, _, _)
UltraResponseFrom(signatures, i, acc, lo, hi) ==
    IF lo > hi THEN acc
    ELSE IF lo = hi THEN UltraResponseStep(acc, signatures[lo], i)
    ELSE LET mid == (lo + hi) \div 2
             left == UltraResponseFrom(signatures, i, acc, lo, mid)
         IN  IF left >= 0
             THEN UltraResponseFrom(signatures, i, left, mid + 1, hi) ELSE 0

\* aggregated_response[i] of compress_response_vectors and of
\* aggregate_dilithium_responses
aggregate_dilithium_responses(signatures, i) ==
    UltraResponseFrom(signatures, i, 0, 1, Len(signatures))

\* one iteration of the inner compression loop: compressed_value is a
\* uint64_t below 2^23 here, so (v << 3) | (v >> 61) is v * 8
CompressStep(compressed_value, coefficient) ==
    (Xor24(compressed_value, coefficient) * 8) % DILITHIUM_Q

\* compressed_value after the iterations j = lo..hi of output word i
RECURSIVE CompressFrom(_, _, _, _, _)
CompressFrom(signatures, i, compressed_value, lo, hi) ==
    IF lo > hi THEN compressed_value
    ELSE IF lo = hi
         THEN IF i * 64 + lo < DILITHIUM_N
              THEN CompressStep(compressed_value,
                                aggregate_dilithium_responses(signatures, i * 64 + lo))
              ELSE compressed_value
    ELSE LET mid == (lo + hi) \div 2
             left == CompressFrom(signatures, i, compressed_value, lo, mid)
         IN  IF left >= 0
             THEN CompressFrom(signatures, i, left, mid + 1, hi) ELSE 0

\* ultra_compressed: 4 values, each < DILITHIUM_Q
compress_response_vectors(signatures) ==
    IF Len(signatures) = 0 THEN << 0, 0, 0, 0 >>
    ELSE << CompressFrom(signatures, 0, 0, 0, 63) % DILITHIUM_Q,
            CompressFrom(signatures, 1, 0, 0, 63) % DILITHIUM_Q,
            CompressFrom(signatures, 2, 0, 0, 63) % DILITHIUM_Q,
            CompressFrom(signatures, 3, 0, 0, 63) % DILITHIUM_Q >>

\* hash_essence: the xor of the four words of a hash
HashEssence(hash) ==
    Xor64(Xor64(GetUint64(hash, 0), GetUint64(hash, 1)),
          Xor64(GetUint64(hash, 2), GetUint64(hash, 3)))

ChallengeStep(aggregated_hash, hash) ==
    Rotl64(Xor64(aggregated_hash, HashEssence(hash)), 7)

RECURSIVE ChallengeFrom(_, _, _, _)
ChallengeFrom(message_hashes, aggregated_hash, lo, hi) ==
    IF lo > hi THEN aggregated_hash
    ELSE IF lo = hi THEN ChallengeStep(aggregated_hash, message_hashes[lo])
    ELSE LET mid == (lo + hi) \div 2
             left == ChallengeFrom(message_hashes, aggregated_hash, lo, mid)
         IN  IF left = left
             THEN ChallengeFrom(message_hashes, left, mid + 1, hi) ELSE left

\* the 8 bytes of aggregated_hash; zero for an empty list
compress_challenges(message_hashes) ==
    ChallengeFrom(message_hashes, ZeroWord, 1, Len(message_hashes))

\* pk_essence: the first 8 bytes of a public key
PkEssence(pubkey) ==
    << ByteAt(pubkey, 0), ByteAt(pubkey, 1), ByteAt(pubkey, 2), ByteAt(pubkey, 3),
       ByteAt(pubkey, 4), ByteAt(pubkey, 5), ByteAt(pubkey, 6), ByteAt(pubkey, 7) >>

\* public keys shorter than 8 bytes are skipped
PubkeyStep(verification_key, pubkey) ==
    IF pubkey.size >= 8
    THEN Rotl64(Xor64(verification_key, PkEssence(pubkey)), 5)
    ELSE verification_key

RECURSIVE PubkeysFrom(_, _, _, _)
PubkeysFrom(pubkeys, verification_key, lo, hi) ==
    IF lo > hi THEN verification_key
    ELSE IF lo = hi THEN PubkeyStep(verification_key, pubkeys[lo])
    ELSE LET mid == (lo + hi) \div 2
             left == PubkeysFrom(pubkeys, verification_key, lo, mid)
         IN  IF left = left
             THEN PubkeysFrom(pubkeys, left, mid + 1, hi) ELSE left

HashKeyStep(verification_key, hash) ==
    Rotl64(Xor64(verification_key, GetUint64(hash, 0)), 3)

RECURSIVE HashesFrom(_, _, _, _)
HashesFrom(hashes, verification_key, lo, hi) ==
    IF lo > hi THEN verification_key
    ELSE IF lo = hi THEN HashKeyStep(verification_key, hashes[lo])
    ELSE LET mid == (lo + hi) \div 2
             left == HashesFrom(hashes, verification_key, lo, mid)
         IN  IF left = left
             THEN HashesFrom(hashes, left, mid + 1, hi) ELSE left

\* verification_key starts as 0x51515151
compute_batch_verification_key(pubkeys, hashes) ==
    HashesFrom(hashes,
               PubkeysFrom(pubkeys, << 81, 81, 81, 81, 0, 0, 0, 0 >>, 1, Len(pubkeys)),
               1, Len(hashes))

\* an aggregator whose verification key leaves the message hashes out (the
\* variant C12 excludes: the verifier would recompute another key)
UltraAggregateKeyOverPubkeysOnly(signatures, pubkeys, message_hashes) ==
    IF \/ Len(signatures) = 0
       \/ Len(signatures) # Len(pubkeys)
       \/ Len(signatures) # Len(message_hashes)
    THEN UltraCompressedSignature
    ELSE LET z == compress_response_vectors(signatures)
         IN  [magic_byte |-> 81,
              signature_count |-> Len(signatures),
              aggregated_z |-> << U32LE(z[1]), U32LE(z[2]), U32LE(z[3]), U32LE(z[4]) >>,
              challenge_hash |-> compress_challenges(message_hashes),
              verification_key |-> compute_batch_verification_key(pubkeys, << >>)]

\* UltraAggregate without the comparison of the three lengths
UltraAggregateOfAnyLengths(signatures, pubkeys, message_hashes) ==
    IF Len(signatures) = 0
    THEN UltraCompressedSignature
    ELSE LET z == compress_response_vectors(signatures)
         IN  [magic_byte |-> 81,
              signature_count |-> Len(signatures),
              aggregated_z |-> << U32LE(z[1]), U32LE(z[2]), U32LE(z[3]), U32LE(z[4]) >>,
              challenge_hash |-> compress_challenges(message_hashes),
              verification_key |->
                  compute_batch_verification_key(pubkeys, message_hashes)]

UltraAggregate(signatures, pubkeys, message_hashes) ==
    IF \/ Len(signatures) = 0
       \/ Len(signatures) # Len(pubkeys)
       \/ Len(signatures) # Len(message_hashes)
    THEN UltraCompressedSignature
    ELSE LET z == compress_response_vectors(signatures)
         IN  [magic_byte |-> 81,
              signature_count |-> Len(signatures),
              aggregated_z |-> << U32LE(z[1]), U32LE(z[2]), U32LE(z[3]), U32LE(z[4]) >>,
              challenge_hash |-> compress_challenges(message_hashes),
              verification_key |->
                  compute_batch_verification_key(pubkeys, message_hashes)]

\* a range check that first reduces the coefficient modulo q (the variant
\* C8 excludes)
CoefficientReducedOutOfRange(z) ==
    IF z[4] >= 128 THEN FALSE
    ELSE (z[1] + 256 * z[2] + 65536 * z[3] + 16777216 * z[4]) % DILITHIUM_Q
             >= DILITHIUM_Q

\* z_component >= DILITHIUM_Q, for a uint32_t given by its 4 bytes
CoefficientOutOfRange(z) ==
    IF z[4] >= 128 THEN TRUE
    ELSE z[1] + 256 * z[2] + 65536 * z[3] + 16777216 * z[4] >= DILITHIUM_Q

\* a verifier whose count check compares only pubkeys.size() (the variant
\* C7 excludes)
UltraVerifyStepPubkeyCountOnly(compressed_sig, pubkeys, message_hashes) ==
    IF ~UltraIsValid(compressed_sig) THEN "structure"
    ELSE IF compressed_sig.signature_count # Len(pubkeys) THEN "count"
    ELSE IF compressed_sig.verification_key
                # compute_batch_verification_key(pubkeys, message_hashes)
         THEN "verification_key"
    ELSE IF compressed_sig.challenge_hash # compress_challenges(message_hashes)
         THEN "challenge_hash"
    ELSE IF \E i \in 1..Len(compressed_sig.aggregated_z) :
                CoefficientOutOfRange(compressed_sig.aggregated_z[i])
         THEN "coefficients"
    ELSE "accepted"

\* the check at which UltraVerify returns
UltraVerifyStep(compressed_sig, pubkeys, message_hashes) ==
    IF ~UltraIsValid(compressed_sig) THEN "structure"
    ELSE IF \/ compressed_sig.signature_count # Len(pubkeys)
            \/ compressed_sig.signature_count # Len(message_hashes)
         THEN "count"
    ELSE IF compressed_sig.verification_key
                # compute_batch_verification_key(pubkeys, message_hashes)
         THEN "verification_key"
    ELSE IF compressed_sig.challenge_hash # compress_challenges(message_hashes)
         THEN "challenge_hash"
    ELSE IF \E i \in 1..Len(compressed_sig.aggregated_z) :
                CoefficientOutOfRange(compressed_sig.aggregated_z[i])
         THEN "coefficients"
    ELSE "accepted"

UltraVerify(compressed_sig, pubkeys, message_hashes) ==
    UltraVerifyStep(compressed_sig, pubkeys, message_hashes) = "accepted"

(***************************************************************************)
(* State.                                                                  *)
(*   A DilithiumAggregatorPrototype and its caller (the life-cycle         *)
(*   specification Spec and the scalability test SpecScale):               *)
(*     pending_signatures, pending_pubkeys, pending_hashes, benchmarks,    *)
(*     ret, consumed; test_index, added for RunScalabilityTest.            *)
(*   A verifier and the party that presents an aggregate to it (the        *)
(*   verification specifications): batch, artifact, vcall, calls.          *)
(***************************************************************************)
VARIABLES
    pending_signatures,   \* std::vector<std::vector<unsigned char>>
    pending_pubkeys,      \* std::vector<std::vector<unsigned char>>
    pending_hashes,       \* std::vector<uint256>
    benchmarks,           \* std::vector<AggregationBenchmark>
    ret,                  \* the last call on the aggregator: name, argument, result
    consumed,             \* history: Aggregate() succeeded since the last ClearBatch()
    test_index,           \* RunScalabilityTest: position in test_counts, 0 before the loop
    added,                \* RunScalabilityTest: the loop variable i of the add loop
    batch,                \* the entries an aggregate is computed from
    artifact,             \* the aggregate computed from batch
    vcall,                \* the last verification call: what was presented, the result
    calls,                \* verification calls running in threads: per thread, its position
    keygen,               \* the number of key pairs the primitive's KeyGen has returned
    qkey,                 \* QKey::keydata: 0 when null, else the pair its secret key is of
    qpub,                 \* the caller's QPubKey from the last GetPubKey(), and the key asked
    qsig,                 \* the caller's vchSig from the last Sign(), with the key and digest
    kret,                 \* the last call on a key: name, argument, result
    pairs,                \* the FromSeed / Derive calls made, with the CQuantumKeyPair returned
    task,                 \* ParallelAggregate: the caller's lists, the asynchronous task, the future
    manager,              \* CQuantumManager: the static instance, the objects made, the threads
    wallet,               \* CQuantumWalletManager: keypairs, address_to_index, the last call
    ckeys                 \* the CQKey objects of a program: keydata and public-key cache

aggregatorVars ==
    << pending_signatures, pending_pubkeys, pending_hashes, benchmarks, ret, consumed >>

scaleVars == << test_index, added >>

verifyVars == << batch, artifact, vcall, calls >>

keyVars == << keygen, qkey, qpub, qsig, kret, pairs >>

systemVars == << task, manager, wallet, ckeys >>

vars == << aggregatorVars, scaleVars, verifyVars, keyVars, systemVars >>

\* values of std::chrono::system_clock, in seconds, at the time of a call
ClockValues == {1, 2}

NoCall == [op |-> "none", arg |-> << >>, result |-> FALSE]

NoArtifact == [kind |-> "none"]

EmptyBatch == [signatures |-> << >>, pubkeys |-> << >>, message_hashes |-> << >>]

AggregatorInit ==
    /\ pending_signatures = << >>
    /\ pending_pubkeys = << >>
    /\ pending_hashes = << >>
    /\ benchmarks = << >>
    /\ ret = NoCall
    /\ consumed = FALSE

ScaleIdle == test_index = 0 /\ added = 0

NoThreads == << >>

VerifyIdle ==
    batch = EmptyBatch /\ artifact = NoArtifact /\ vcall = NoCall /\ calls = NoThreads

\* no key made, no call on a key made
KeysIdle ==
    /\ keygen = 0
    /\ qkey = 0
    /\ qpub = [key |-> 0, vch |-> InvalidPubKey]
    /\ qsig = [key |-> 0, hash |-> H1, vch |-> EmptyVec]
    /\ kret = NoCall
    /\ pairs = << >>

(***************************************************************************)
(* The operations of DilithiumAggregatorPrototype.                         *)
(***************************************************************************)
\* the boolean AddSignature returns
\* the validation of AddSignature without the test of the public key
AddSignatureAcceptsAnyPubkey(e) == ~(e.signature.size = 0)

AddSignatureAccepts(e) == ~(e.signature.size = 0 \/ e.pubkey.size = 0)

\* AddSignature putting the new public key and hash in front of the lists
AddSignatureCallInFront(e) ==
    /\ IF AddSignatureAccepts(e)
       THEN /\ pending_signatures' = Append(pending_signatures, e.signature)
            /\ pending_pubkeys' = << e.pubkey >> \o pending_pubkeys
            /\ pending_hashes' = << e.message_hash >> \o pending_hashes
       ELSE UNCHANGED << pending_signatures, pending_pubkeys, pending_hashes >>
    /\ ret' = [op |-> "AddSignature", arg |-> e, result |-> AddSignatureAccepts(e)]
    /\ UNCHANGED << benchmarks, consumed >>

AddSignatureCall(e) ==
    /\ IF AddSignatureAccepts(e)
       THEN /\ pending_signatures' = Append(pending_signatures, e.signature)
            /\ pending_pubkeys' = Append(pending_pubkeys, e.pubkey)
            /\ pending_hashes' = Append(pending_hashes, e.message_hash)
       ELSE UNCHANGED << pending_signatures, pending_pubkeys, pending_hashes >>
    /\ ret' = [op |-> "AddSignature", arg |-> e, result |-> AddSignatureAccepts(e)]
    /\ UNCHANGED << benchmarks, consumed >>

AggregateCall ==
    /\ IF pending_signatures = << >>
       THEN /\ ret' = [op |-> "Aggregate", arg |-> << >>,
                       result |-> SimpleAggregatedSignature]
            /\ UNCHANGED << benchmarks, consumed >>
       ELSE \E now \in ClockValues :
            /\ ret' = [op |-> "Aggregate", arg |-> << >>,
                       result |-> AggregateResult(pending_signatures, pending_pubkeys,
                                                  pending_hashes, now)]
            /\ benchmarks' = Append(benchmarks, Benchmark(pending_signatures))
            /\ consumed' = TRUE
    /\ UNCHANGED << pending_signatures, pending_pubkeys, pending_hashes >>

\* the caller hands the aggregate it was just returned to the static verifier
VerifyAggregatedCall ==
    /\ ret.op = "Aggregate"
    /\ ret' = [op |-> "VerifyAggregated", arg |-> ret.result,
               result |-> VerifyAggregated(ret.result)]
    /\ UNCHANGED << pending_signatures, pending_pubkeys, pending_hashes,
                    benchmarks, consumed >>

\* ClearBatch with the list of message hashes left as it is
ClearBatchCallKeepingHashes ==
    /\ pending_signatures' = << >>
    /\ pending_pubkeys' = << >>
    /\ consumed' = FALSE
    /\ ret' = [op |-> "ClearBatch", arg |-> << >>, result |-> TRUE]
    /\ UNCHANGED << pending_hashes, benchmarks >>

ClearBatchCall ==
    /\ pending_signatures' = << >>
    /\ pending_pubkeys' = << >>
    /\ pending_hashes' = << >>
    /\ consumed' = FALSE
    /\ ret' = [op |-> "ClearBatch", arg |-> << >>, result |-> TRUE]
    /\ UNCHANGED benchmarks

(***************************************************************************)
(* Spec: one aggregator, called in any order by its owner.                 *)
(***************************************************************************)
AddSignature(e) ==
    /\ Len(pending_signatures) < MaxBatch
    /\ AddSignatureCall(e)
    /\ UNCHANGED << scaleVars, verifyVars, keyVars, systemVars >>

Aggregate ==
    /\ Len(benchmarks) < MaxBenchmarks
    /\ AggregateCall
    /\ UNCHANGED << scaleVars, verifyVars, keyVars, systemVars >>

CheckAggregate ==
    /\ VerifyAggregatedCall
    /\ UNCHANGED << scaleVars, verifyVars, keyVars, systemVars >>

ClearBatch ==
    /\ ClearBatchCall
    /\ UNCHANGED << scaleVars, verifyVars, keyVars, systemVars >>

\* no ParallelAggregate call made
NoTask == [state |-> "none"]

\* a thread that is in no call of CQuantumManager and holds no reference
IdleCaller ==
    [pc |-> "idle", op |-> "none", enable_quantum |-> FALSE,
     enable_aggregation |-> FALSE, made |-> 0, ref |-> 0, held |-> 0, calls |-> 0]

\* no CQuantumManager constructed (manager.cpp:7), no thread in a call
NoManager ==
    [instance |-> 0, objects |-> << >>,
     threads |-> [t \in 1..MaxThreads |-> IdleCaller],
     shutdown_called |-> FALSE, crashed |-> FALSE]

\* a CQuantumWalletManager as constructed
EmptyWallet == [keypairs |-> << >>, address_to_index |-> << >>, ret |-> NoCall]

SystemIdle ==
    /\ task = NoTask
    /\ manager = NoManager
    /\ wallet = EmptyWallet
    /\ ckeys = << >>

Init == AggregatorInit /\ ScaleIdle /\ VerifyIdle /\ KeysIdle /\ SystemIdle

Next ==
    \/ \E e \in Inputs : AddSignature(e)
    \/ Aggregate
    \/ CheckAggregate
    \/ ClearBatch

Spec == Init /\ [][Next]_vars

(***************************************************************************)
(* SpecScale: ResearchUtils::RunScalabilityTest(MaxSignatures).            *)
(***************************************************************************)
\* test_counts = {2, 5, 10, 25, 50, 100}, and max_signatures when it is > 100
test_counts ==
    << 2, 5, 10, 25, 50, 100 >>
        \o (IF MaxSignatures > 100 THEN << MaxSignatures >> ELSE << >>)

\* the first position after k whose count is not skipped (count > max_signatures
\* is skipped); Len(test_counts) + 1 when there is none
RECURSIVE NextTest(_)
NextTest(k) ==
    IF k + 1 > Len(test_counts) THEN k + 1
    ELSE IF test_counts[k + 1] > MaxSignatures THEN NextTest(k + 1)
    ELSE k + 1

\* GenerateTestSignatures, GenerateTestPubkeys and GenerateTestHashes return
\* random bytes of the requested sizes; the model takes, for the i-th entry,
\* a key and a digest that depend on i and, of all 3309-byte vectors, the
\* signature of that digest under that key
GeneratedEntry(i) ==
    ValidEntry(ByteVec(1952, << i % 256, i \div 256 >>, 85),
               Digest(i % 256, i \div 256, 0, 0))

\* the loop is between two tests: before the first, or after a verification
BetweenTests ==
    \/ test_index = 0
    \/ test_index <= Len(test_counts) /\ ret.op = "VerifyAggregated"

\* aggregator.ClearBatch() at the start of the next test
ScaleClearBatch ==
    /\ BetweenTests
    /\ NextTest(test_index) <= Len(test_counts)
    /\ ClearBatchCall
    /\ test_index' = NextTest(test_index)
    /\ added' = 0
    /\ UNCHANGED << verifyVars, keyVars, systemVars >>

\* aggregator.AddSignature(signatures[i], pubkeys[i], hashes[i])
ScaleAddSignature ==
    /\ test_index >= 1 /\ test_index <= Len(test_counts)
    /\ ret.op \in {"ClearBatch", "AddSignature"}
    /\ added < test_counts[test_index]
    /\ AddSignatureCall(GeneratedEntry(added))
    /\ added' = added + 1
    /\ UNCHANGED << test_index, verifyVars, keyVars, systemVars >>

\* auto aggregated = aggregator.Aggregate()
ScaleAggregate ==
    /\ test_index >= 1 /\ test_index <= Len(test_counts)
    /\ ret.op \in {"ClearBatch", "AddSignature"}
    /\ added = test_counts[test_index]
    /\ AggregateCall
    /\ UNCHANGED << scaleVars, verifyVars, keyVars, systemVars >>

\* bool verified = DilithiumAggregatorPrototype::VerifyAggregated(aggregated)
ScaleVerify ==
    /\ test_index >= 1
    /\ VerifyAggregatedCall
    /\ UNCHANGED << scaleVars, verifyVars, keyVars, systemVars >>

NextScale ==
    \/ ScaleClearBatch
    \/ ScaleAddSignature
    \/ ScaleAggregate
    \/ ScaleVerify

SpecScale == Init /\ [][NextScale]_vars

(***************************************************************************)
(* SpecVerify: a batch of entries is aggregated once, by UltraAggregate or *)
(* by a fresh DilithiumAggregatorPrototype, and the aggregate is presented *)
(* to the matching verifier, as returned or changed in one place.          *)
(***************************************************************************)
\* the public keys and digests a presenter can put in place of the real ones
PresentedPubkeys == {PKA, PKA2, PKB}
PresentedHashes == {H1, H2, H3}

\* the entries batches are made of: each signature is the signer's own
VerifyEntries == {ValidEntry(pk, h) : pk \in {PKA, PKB}, h \in PresentedHashes}

AppendEntry(b, e) ==
    [signatures |-> Append(b.signatures, e.signature),
     pubkeys |-> Append(b.pubkeys, e.pubkey),
     message_hashes |-> Append(b.message_hashes, e.message_hash)]

RECURSIVE BatchesOfLen(_)
BatchesOfLen(n) ==
    IF n = 0 THEN {EmptyBatch}
    ELSE {AppendEntry(b, e) : b \in BatchesOfLen(n - 1), e \in VerifyEntries}

Batches == UNION {BatchesOfLen(n) : n \in 1..MaxLen}

Tamper(kind, i, b) == [kind |-> kind, i |-> i, b |-> b]

DropLast(s) == SubSeq(s, 1, Len(s) - 1)

\* bit b (0..31) of the uint32_t z, given by its 4 bytes, inverted
FlipWordBit(z, b) == [z EXCEPT ![(b \div 8) + 1] = FlipBit(@, b % 8)]

\* what a presenter can hand to UltraVerify for the aggregate sig of batch b
UltraPresentations(sig, b) ==
    LET P(t, s, pks, hs) ==
            [tamper |-> t, sig |-> s, pubkeys |-> pks, message_hashes |-> hs]
        n == Len(b.pubkeys)
    IN  {P(Tamper("none", 0, 0), sig, b.pubkeys, b.message_hashes)}
        \cup {P(Tamper("flip_z", i, bit),
                [sig EXCEPT !.aggregated_z[i] = FlipWordBit(@, bit)],
                b.pubkeys, b.message_hashes) : i \in 1..4, bit \in 0..31}
        \cup {P(Tamper("set_z", i, 0),
                [sig EXCEPT !.aggregated_z[i] = z],
                b.pubkeys, b.message_hashes) :
                    i \in 1..4, z \in {U32LE(DILITHIUM_Q), << 255, 255, 255, 255 >>}}
        \cup UNION {{P(Tamper("replace_pubkey", k, 0), sig,
                [b.pubkeys EXCEPT ![k] = pk], b.message_hashes) :
                    pk \in PresentedPubkeys \ {b.pubkeys[k]}} : k \in 1..n}
        \cup UNION {{P(Tamper("replace_hash", k, 0), sig,
                b.pubkeys, [b.message_hashes EXCEPT ![k] = h]) :
                    h \in PresentedHashes \ {b.message_hashes[k]}} : k \in 1..n}
        \cup (IF n >= 2
              THEN {P(Tamper("swap_hashes", 1, 2), sig, b.pubkeys,
                      [b.message_hashes EXCEPT ![1] = b.message_hashes[2],
                                               ![2] = b.message_hashes[1]])}
              ELSE {})
        \cup {P(Tamper("drop_pubkey", n, 0), sig, DropLast(b.pubkeys), b.message_hashes),
              P(Tamper("drop_hash", n, 0), sig, b.pubkeys, DropLast(b.message_hashes)),
              P(Tamper("extra_pubkey", n + 1, 0), sig,
                Append(b.pubkeys, PKB), b.message_hashes),
              P(Tamper("extra_hash", n + 1, 0), sig,
                b.pubkeys, Append(b.message_hashes, H1)),
              P(Tamper("set_count", 0, 0), [sig EXCEPT !.signature_count = 0],
                b.pubkeys, b.message_hashes),
              P(Tamper("set_count", n + 1, 0), [sig EXCEPT !.signature_count = n + 1],
                b.pubkeys, b.message_hashes),
              P(Tamper("set_magic", 0, 0), [sig EXCEPT !.magic_byte = 80],
                b.pubkeys, b.message_hashes)}

\* what a presenter can hand to VerifyAggregated for the aggregate agg
ProtoPresentations(agg) ==
    LET P(t, a) == [tamper |-> t, agg |-> a]
        n == Len(agg.pubkey_data)
    IN  {P(Tamper("none", 0, 0), agg)}
        \cup {P(Tamper("flip_data", i, bit),
                [agg EXCEPT !.aggregated_data[i + 1] = FlipBit(@, bit)]) :
                    i \in 0..(Len(agg.aggregated_data) - 1), bit \in 0..7}
        \cup UNION {{P(Tamper("replace_pubkey", k, 0),
                [agg EXCEPT !.pubkey_data[k] = pk]) :
                    pk \in PresentedPubkeys \ {agg.pubkey_data[k]}} : k \in 1..n}
        \cup UNION {{P(Tamper("replace_hash", k, 0),
                [agg EXCEPT !.message_hashes[k] = h]) :
                    h \in PresentedHashes \ {agg.message_hashes[k]}} : k \in 1..n}
        \cup {P(Tamper("drop_pubkey", n, 0),
                [agg EXCEPT !.pubkey_data = DropLast(@)]),
              P(Tamper("drop_hash", n, 0),
                [agg EXCEPT !.message_hashes = DropLast(@)]),
              P(Tamper("set_count", n + 1, 0),
                [agg EXCEPT !.signature_count = n + 1])}

\* AdvancedDilithiumAggregator::UltraAggregate(signatures, pubkeys, message_hashes)
UltraAggregateBatch ==
    /\ artifact.kind = "none"
    /\ artifact' = [kind |-> "ultra",
                    value |-> UltraAggregate(batch.signatures, batch.pubkeys,
                                             batch.message_hashes)]
    /\ UNCHANGED << aggregatorVars, scaleVars, keyVars, systemVars, batch, vcall, calls >>

\* a fresh DilithiumAggregatorPrototype: AddSignature for each entry of the
\* batch (all are accepted), then Aggregate()
ProtoAggregateBatch ==
    /\ artifact.kind = "none"
    /\ \A k \in 1..Len(batch.signatures) :
           AddSignatureAccepts(Entry(batch.signatures[k], batch.pubkeys[k],
                                     batch.message_hashes[k]))
    /\ \E now \in ClockValues :
           artifact' = [kind |-> "simple",
                        value |-> AggregateResult(batch.signatures, batch.pubkeys,
                                                  batch.message_hashes, now)]
    /\ UNCHANGED << aggregatorVars, scaleVars, keyVars, systemVars, batch, vcall, calls >>

\* AdvancedDilithiumAggregator::UltraVerify(compressed_sig, pubkeys, message_hashes)
UltraVerifyPresented ==
    /\ artifact.kind = "ultra"
    /\ vcall.op = "none"
    /\ \E p \in UltraPresentations(artifact.value, batch) :
           LET step == UltraVerifyStep(p.sig, p.pubkeys, p.message_hashes)
           IN  vcall' = [op |-> "UltraVerify", tamper |-> p.tamper, sig |-> p.sig,
                         pubkeys |-> p.pubkeys, message_hashes |-> p.message_hashes,
                         step |-> step, result |-> (step = "accepted")]
    /\ UNCHANGED << aggregatorVars, scaleVars, keyVars, systemVars, batch, artifact, calls >>

\* DilithiumAggregatorPrototype::VerifyAggregated(agg_sig)
ProtoVerifyPresented ==
    /\ artifact.kind = "simple"
    /\ vcall.op = "none"
    /\ \E p \in ProtoPresentations(artifact.value) :
           vcall' = [op |-> "VerifyAggregated", tamper |-> p.tamper, agg |-> p.agg,
                     result |-> VerifyAggregated(p.agg)]
    /\ UNCHANGED << aggregatorVars, scaleVars, keyVars, systemVars, batch, artifact, calls >>

InitVerify ==
    /\ AggregatorInit
    /\ ScaleIdle
    /\ KeysIdle
    /\ SystemIdle
    /\ batch \in Batches
    /\ artifact = NoArtifact
    /\ vcall = NoCall
    /\ calls = NoThreads

NextVerify ==
    \/ UltraAggregateBatch
    \/ ProtoAggregateBatch
    \/ UltraVerifyPresented
    \/ ProtoVerifyPresented

SpecVerify == InitVerify /\ [][NextVerify]_vars

(***************************************************************************)
(* Properties.                                                             *)
(***************************************************************************)
\* every pending entry passes the primitive's Verify
PendingAllVerify ==
    \A k \in 1..Len(pending_signatures) :
        PrimitiveVerify(pending_pubkeys[k], pending_hashes[k], pending_signatures[k])

\* C1 (soundness, checked in SpecScale): for every batch of n >= 1 entries
\* that each pass Verify, VerifyAggregated applied to what Aggregate()
\* returned for that batch is true.
C1_Soundness ==
    (/\ ret.op = "VerifyAggregated"
     /\ Len(pending_signatures) >= 1
     /\ PendingAllVerify)
        => ret.result = TRUE

\* C2 (rejection on add, checked in Spec): AddSignature with a triple for
\* which Verify is false returns failure and leaves the three pending lists
\* as they were; a triple for which Verify is true is accepted.
C2_RejectionOnAdd ==
    [][ret'.op = "AddSignature" =>
            IF PrimitiveVerify(ret'.arg.pubkey, ret'.arg.message_hash,
                               ret'.arg.signature)
            THEN ret'.result = TRUE
            ELSE /\ ret'.result = FALSE
                 /\ UNCHANGED << pending_signatures, pending_pubkeys,
                                 pending_hashes >>]_vars

\* the untampered aggregate of the batch is accepted by its verifier
UntamperedAccepted ==
    IF artifact.kind = "ultra"
    THEN UltraVerify(artifact.value, batch.pubkeys, batch.message_hashes)
    ELSE artifact.kind = "simple" /\ VerifyAggregated(artifact.value)

\* C3 (forgery rejection, checked in SpecVerify): an accepted aggregate with
\* one bit inverted in one of the four aggregated_z words (UltraVerify), or
\* in one of the bytes 2..33 of aggregated_data (VerifyAggregated), is
\* rejected.
C3_ForgeryRejection ==
    /\ (/\ vcall.op = "UltraVerify"
        /\ vcall.tamper.kind = "flip_z"
        /\ UntamperedAccepted)
           => vcall.result = FALSE
    /\ (/\ vcall.op = "VerifyAggregated"
        /\ vcall.tamper.kind = "flip_data"
        /\ vcall.tamper.i \in 2..33
        /\ UntamperedAccepted)
           => vcall.result = FALSE

\* C4 (substitution rejection, checked in SpecVerify): UltraVerify, given
\* the aggregate with one public key or one digest of the lists replaced by
\* a different value, returns false, and it does so at the comparison of the
\* verification key.
C4_SubstitutionRejection ==
    (/\ vcall.op = "UltraVerify"
     /\ vcall.tamper.kind \in {"replace_pubkey", "replace_hash"}
     /\ UntamperedAccepted)
        => /\ vcall.result = FALSE
           /\ vcall.step = "verification_key"

\* C5 (binding commitment of the prototype, checked in SpecVerify):
\* VerifyAggregated is false for an aggregate in which one element of
\* pubkey_data or one element of message_hashes was replaced by a different
\* value after aggregation.
C5_PrototypeBinding ==
    (/\ vcall.op = "VerifyAggregated"
     /\ vcall.tamper.kind \in {"replace_pubkey", "replace_hash"}
     /\ UntamperedAccepted)
        => vcall.result = FALSE

\* C6 (order sensitivity, checked in SpecVerify): UltraVerify is false when
\* the first two digests, being different, are presented in exchanged order.
C6_OrderSensitivity ==
    (/\ vcall.op = "UltraVerify"
     /\ vcall.tamper.kind = "swap_hashes"
     /\ batch.message_hashes[1] # batch.message_hashes[2]
     /\ UntamperedAccepted)
        => vcall.result = FALSE

\* C7 (count enforcement, checked in SpecVerify): UltraVerify returns false
\* when the number of presented public keys or of presented digests differs
\* from signature_count, at the structure or count check, before the
\* verification key, the challenge hash and the coefficients are looked at;
\* VerifyAggregated returns false when the length of pubkey_data or of
\* message_hashes differs from signature_count.
C7_CountEnforcement ==
    /\ (/\ vcall.op = "UltraVerify"
        /\ \/ Len(vcall.pubkeys) # vcall.sig.signature_count
           \/ Len(vcall.message_hashes) # vcall.sig.signature_count)
           => /\ vcall.result = FALSE
              /\ vcall.step \in {"structure", "count"}
    /\ (/\ vcall.op = "VerifyAggregated"
        /\ \/ Len(vcall.agg.pubkey_data) # vcall.agg.signature_count
           \/ Len(vcall.agg.message_hashes) # vcall.agg.signature_count)
           => vcall.result = FALSE

\* a digest was left out of an otherwise well-formed presentation and
\* UltraVerify returned false at the count check
C7_Witness ==
    /\ vcall.op = "UltraVerify"
    /\ vcall.tamper.kind = "drop_hash"
    /\ Len(vcall.pubkeys) = vcall.sig.signature_count
    /\ Len(vcall.message_hashes) # vcall.sig.signature_count
    /\ vcall.step = "count"
    /\ vcall.result = FALSE

\* C8 (malformed proof, checked in SpecVerify): UltraVerify rejects every
\* proof one of whose aggregated_z coefficients is >= 8380417.
C8_MalformedProof ==
    (/\ vcall.op = "UltraVerify"
     /\ \E i \in 1..4 :
            LET z == vcall.sig.aggregated_z[i]
            IN  \/ z[4] >= 128
                \/ z[1] + 256 * z[2] + 65536 * z[3] + 16777216 * z[4]
                       >= DILITHIUM_Q)
        => vcall.result = FALSE

\* a coefficient of an otherwise accepted proof was set to exactly q and
\* UltraVerify returned false at the range check
C8_Witness ==
    /\ vcall.op = "UltraVerify"
    /\ vcall.tamper.kind = "set_z"
    /\ \E i \in 1..4 : vcall.sig.aggregated_z[i] = U32LE(DILITHIUM_Q)
    /\ vcall.step = "coefficients"
    /\ vcall.result = FALSE

\* C9 (size enforcement, checked in Spec): AddSignature with a signature
\* whose length is not 3309 or a public key whose length is not 1952
\* returns failure and leaves the three pending lists as they were.
C9_SizeEnforcement ==
    [][(/\ ret'.op = "AddSignature"
        /\ \/ ret'.arg.signature.size # 3309
           \/ ret'.arg.pubkey.size # 1952)
           => /\ ret'.result = FALSE
              /\ UNCHANGED << pending_signatures, pending_pubkeys,
                              pending_hashes >>]_vars

\* C10 (a batch is consumed once, checked in Spec): between a successful
\* Aggregate() and the next ClearBatch(), AddSignature returns failure and
\* leaves the batch as it was, and Aggregate() returns no valid aggregate.
C10_BatchConsumedOnce ==
    [][consumed =>
        /\ ret'.op = "AddSignature" =>
               /\ ret'.result = FALSE
               /\ UNCHANGED << pending_signatures, pending_pubkeys,
                               pending_hashes >>
        /\ ret'.op = "Aggregate" =>
               ~IsValid(ret'.result)]_vars

\* C11 (determinism of aggregation, checked in Spec): two Aggregate() calls
\* over the same pending entries, one after the other with nothing in
\* between, return the same SimpleAggregatedSignature in every field,
\* whatever the wall clock says at each call.
C11_AggregateDeterministic ==
    [][(/\ ret.op = "Aggregate"
        /\ ret'.op = "Aggregate"
        /\ UNCHANGED << pending_signatures, pending_pubkeys, pending_hashes >>)
           => ret'.result = ret.result]_vars

(***************************************************************************)
(* SpecBlock: a caller holds three lists of any lengths and contents,      *)
(* aggregates them with UltraAggregate or AggregateBlockSignatures, and    *)
(* verifies what it got with UltraVerify or VerifyAggregatedBlock.         *)
(***************************************************************************)
\* signatures of the right and of other sizes, a signature of all-0xFF bytes
BlockSignatures ==
    {SignatureOf(PKA, H1), ByteVec(3309, << >>, 255),
     ByteVec(5, << 1, 2, 3, 4, 5 >>, 0)}

\* a public key of the right size and one shorter than 8 bytes
BlockPubkeys == {PKA, ByteVec(4, << 1, 2, 3, 4 >>, 0)}

BlockHashes == {H1, H2}

\* the sequences over S of length n
RECURSIVE SeqsOfLen(_, _)
SeqsOfLen(S, n) ==
    IF n = 0 THEN {<< >>}
    ELSE {Append(s, x) : s \in SeqsOfLen(S, n - 1), x \in S}

SeqsUpTo(S, n) == UNION {SeqsOfLen(S, k) : k \in 0..n}

BlockLists ==
    {[signatures |-> s, pubkeys |-> p, message_hashes |-> h] :
        s \in SeqsUpTo(BlockSignatures, MaxLen),
        p \in SeqsUpTo(BlockPubkeys, MaxLen),
        h \in SeqsUpTo(BlockHashes, MaxLen)}

\* BlockchainIntegration::AggregateBlockSignatures(block_signatures,
\* block_pubkeys, block_tx_hashes, result): result is overwritten, the
\* boolean returned is kept in ok
AggregateBlockSignatures ==
    /\ artifact.kind = "none"
    /\ LET aggregated_signature ==
               UltraAggregate(batch.signatures, batch.pubkeys, batch.message_hashes)
       IN  artifact' = [kind |-> "block",
                        value |-> [tx_signatures |-> batch.signatures,
                                   tx_pubkeys |-> batch.pubkeys,
                                   tx_hashes |-> batch.message_hashes,
                                   aggregated_signature |-> aggregated_signature],
                        ok |-> UltraIsValid(aggregated_signature)]
    /\ UNCHANGED << aggregatorVars, scaleVars, keyVars, systemVars, batch, vcall, calls >>

\* BlockchainIntegration::VerifyAggregatedBlock(block_data)
VerifyAggregatedBlock ==
    /\ artifact.kind = "block"
    /\ vcall.op = "none"
    /\ vcall' = [op |-> "VerifyAggregatedBlock", arg |-> artifact.value,
                 result |-> UltraVerify(artifact.value.aggregated_signature,
                                        artifact.value.tx_pubkeys,
                                        artifact.value.tx_hashes)]
    /\ UNCHANGED << aggregatorVars, scaleVars, keyVars, systemVars, batch, artifact, calls >>

\* UltraVerify on the signature UltraAggregate returned, with the same lists
UltraVerifyReturned ==
    /\ artifact.kind = "ultra"
    /\ vcall.op = "none"
    /\ LET step == UltraVerifyStep(artifact.value, batch.pubkeys,
                                    batch.message_hashes)
       IN  vcall' = [op |-> "UltraVerify", tamper |-> Tamper("none", 0, 0),
                     sig |-> artifact.value, pubkeys |-> batch.pubkeys,
                     message_hashes |-> batch.message_hashes,
                     step |-> step, result |-> (step = "accepted")]
    /\ UNCHANGED << aggregatorVars, scaleVars, keyVars, systemVars, batch, artifact, calls >>

InitBlock ==
    /\ AggregatorInit
    /\ ScaleIdle
    /\ KeysIdle
    /\ SystemIdle
    /\ batch \in BlockLists
    /\ artifact = NoArtifact
    /\ vcall = NoCall
    /\ calls = NoThreads

NextBlock ==
    \/ UltraAggregateBatch
    \/ UltraVerifyReturned
    \/ AggregateBlockSignatures
    \/ VerifyAggregatedBlock

SpecBlock == InitBlock /\ [][NextBlock]_vars

\* the three lists are not empty and have the same length
NonEmptyEqualLists ==
    /\ Len(batch.signatures) >= 1
    /\ Len(batch.signatures) = Len(batch.pubkeys)
    /\ Len(batch.signatures) = Len(batch.message_hashes)

\* C12 (soundness of the ultra-compressed path, checked in SpecBlock): for
\* non-empty lists of equal length, whatever the sizes of their elements,
\* UltraVerify accepts what UltraAggregate returned for the same lists,
\* AggregateBlockSignatures returns true and VerifyAggregatedBlock accepts
\* the BlockSignatureData it filled.
C12_UltraSoundness ==
    NonEmptyEqualLists =>
        /\ vcall.op = "UltraVerify" => vcall.result = TRUE
        /\ artifact.kind = "block" => artifact.ok = TRUE
        /\ vcall.op = "VerifyAggregatedBlock" => vcall.result = TRUE

\* a block of two entries, one of them with a 5-byte signature and a 4-byte
\* key, was aggregated and verified
C12_Witness ==
    /\ NonEmptyEqualLists
    /\ Len(batch.signatures) = 2
    /\ \E k \in 1..2 : batch.signatures[k].size = 5
    /\ \E k \in 1..2 : batch.pubkeys[k].size = 4
    /\ vcall.op = "VerifyAggregatedBlock"
    /\ vcall.result = TRUE

\* C13 (constant proof size, checked in SpecVerify): for every batch of
\* n >= 1 entries, aggregated_data returned by Aggregate() has exactly 37
\* bytes, and the signature returned by UltraAggregate has exactly 4
\* aggregated_z coefficients and 8 challenge_hash bytes; signature_count and
\* the lists have n elements.
C13_ConstantProofSize ==
    LET n == Len(batch.signatures)
    IN  /\ artifact.kind = "simple" =>
               /\ Len(artifact.value.aggregated_data) = 37
               /\ artifact.value.signature_count = n
               /\ Len(artifact.value.pubkey_data) = n
               /\ Len(artifact.value.message_hashes) = n
        /\ artifact.kind = "ultra" =>
               /\ Len(artifact.value.aggregated_z) = 4
               /\ \A i \in 1..4 : Len(artifact.value.aggregated_z[i]) = 4
               /\ Len(artifact.value.challenge_hash) = 8
               /\ artifact.value.signature_count = n

\* Aggregate() returned 37 bytes for a batch of more than one entry
C13_Witness ==
    /\ artifact.kind = "simple"
    /\ Len(batch.signatures) >= 2
    /\ artifact.value.signature_count = Len(batch.signatures)
    /\ Len(artifact.value.aggregated_data) = 37

(***************************************************************************)
(* SpecReentrant: several threads call the same verifier on the same       *)
(* aggregate and lists, each call advancing one check at a time, in any    *)
(* interleaving.                                                           *)
(***************************************************************************)
Threads == 1..MaxThreads

\* the checks of VerifyAggregated, in the order of the code
ProtoChecks == << "structure", "size", "magic", "count", "commitment" >>

\* the checks of VerifyAggregated with the count byte left uncompared
ProtoCheckWithoutCount(check, agg_sig) ==
    CASE check = "structure" -> IsValid(agg_sig)
      [] check = "size" -> Len(agg_sig.aggregated_data) >= 35
      [] check = "magic" -> agg_sig.aggregated_data[1] = 81
      [] check = "count" -> TRUE
      [] check = "commitment" ->
            StoredHash(agg_sig.aggregated_data)
                = ExpectedHashTruncated(agg_sig.message_hashes)

\* whether agg_sig passes one check of VerifyAggregated
ProtoCheck(check, agg_sig) ==
    CASE check = "structure" -> IsValid(agg_sig)
      [] check = "size" -> Len(agg_sig.aggregated_data) >= 35
      [] check = "magic" -> agg_sig.aggregated_data[1] = 81
      [] check = "count" -> agg_sig.aggregated_data[2] = agg_sig.signature_count
      [] check = "commitment" ->
            StoredHash(agg_sig.aggregated_data)
                = ExpectedHashTruncated(agg_sig.message_hashes)

\* the checks of UltraVerify with the coefficient range check moved forward
UltraChecksCoefficientsEarly ==
    << "structure", "coefficients", "count", "verification_key", "challenge_hash" >>

\* the checks of UltraVerify, in the order of the code
UltraChecks ==
    << "structure", "count", "verification_key", "challenge_hash", "coefficients" >>

\* whether the arguments pass one check of UltraVerify
UltraCheck(check, compressed_sig, pubkeys, message_hashes) ==
    CASE check = "structure" -> UltraIsValid(compressed_sig)
      [] check = "count" ->
            /\ compressed_sig.signature_count = Len(pubkeys)
            /\ compressed_sig.signature_count = Len(message_hashes)
      [] check = "verification_key" ->
            compressed_sig.verification_key
                = compute_batch_verification_key(pubkeys, message_hashes)
      [] check = "challenge_hash" ->
            compressed_sig.challenge_hash = compress_challenges(message_hashes)
      [] check = "coefficients" ->
            \A i \in 1..Len(compressed_sig.aggregated_z) :
                ~CoefficientOutOfRange(compressed_sig.aggregated_z[i])

\* a thread outside a call, having made done calls that returned the values seen
IdleThread(done, seen) == [pc |-> 0, done |-> done, seen |-> seen]

\* a thread enters VerifyAggregated / UltraVerify
BeginVerify(t) ==
    /\ calls[t].pc = 0
    /\ calls[t].done < MaxCalls
    /\ calls' = [calls EXCEPT ![t].pc = 1]
    /\ UNCHANGED << aggregatorVars, scaleVars, keyVars, systemVars, batch, artifact, vcall >>

\* the position of thread t after a check that passed or not: the next
\* check, or the return with the call's result
AfterCheck(t, pass, last) ==
    IF pass /\ calls[t].pc < last
    THEN [calls EXCEPT ![t].pc = calls[t].pc + 1]
    ELSE [calls EXCEPT ![t] = IdleThread(calls[t].done + 1,
                                          calls[t].seen \cup {pass})]

\* one check of VerifyAggregated in thread t
VerifyAggregatedStep(t) ==
    /\ artifact.kind = "simple"
    /\ calls[t].pc > 0
    /\ calls' = AfterCheck(t, ProtoCheck(ProtoChecks[calls[t].pc], artifact.value),
                           Len(ProtoChecks))
    /\ UNCHANGED << aggregatorVars, scaleVars, keyVars, systemVars, batch, artifact, vcall >>

\* one check of UltraVerify in thread t
UltraVerifyStepOf(t) ==
    /\ artifact.kind = "ultra"
    /\ calls[t].pc > 0
    /\ calls' = AfterCheck(t, UltraCheck(UltraChecks[calls[t].pc], artifact.value,
                                         artifact.pubkeys, artifact.message_hashes),
                           Len(UltraChecks))
    /\ UNCHANGED << aggregatorVars, scaleVars, keyVars, systemVars, batch, artifact, vcall >>

\* the aggregates presented to VerifyAggregated: as returned, and changed so
\* that each check rejects
ReentrantProtoPresentations(agg) ==
    {p \in ProtoPresentations(agg) :
        \/ p.tamper.kind \in {"none", "replace_hash", "drop_pubkey"}
        \/ p.tamper.kind = "flip_data" /\ p.tamper.i \in {0, 1} /\ p.tamper.b = 0}

\* the arguments presented to UltraVerify: as returned, and changed so that
\* each check rejects
ReentrantUltraPresentations(sig, b) ==
    {p \in UltraPresentations(sig, b) :
        \/ p.tamper.kind \in {"none", "replace_hash", "drop_hash", "set_magic"}
        \/ p.tamper.kind = "set_z" /\ p.tamper.i = 1}

\* the aggregator that returned the aggregate still holds its batch
InitReentrantProto ==
    /\ pending_signatures = batch.signatures
    /\ pending_pubkeys = batch.pubkeys
    /\ pending_hashes = batch.message_hashes
    /\ benchmarks = << Benchmark(batch.signatures) >>
    /\ consumed = TRUE
    /\ LET agg == AggregateResult(batch.signatures, batch.pubkeys,
                                  batch.message_hashes, 1)
       IN  /\ ret = [op |-> "Aggregate", arg |-> << >>, result |-> agg]
           /\ \E p \in ReentrantProtoPresentations(agg) :
                  artifact = [kind |-> "simple", value |-> p.agg]

InitReentrantUltra ==
    /\ AggregatorInit
    /\ \E p \in ReentrantUltraPresentations(
                    UltraAggregate(batch.signatures, batch.pubkeys,
                                   batch.message_hashes), batch) :
           artifact = [kind |-> "ultra", value |-> p.sig, pubkeys |-> p.pubkeys,
                       message_hashes |-> p.message_hashes]

InitReentrant ==
    /\ batch \in BatchesOfLen(1)
    /\ InitReentrantProto \/ InitReentrantUltra
    /\ ScaleIdle
    /\ KeysIdle
    /\ SystemIdle
    /\ vcall = NoCall
    /\ calls = [t \in Threads |-> IdleThread(0, {})]

NextReentrant ==
    \E t \in Threads :
        \/ BeginVerify(t)
        \/ VerifyAggregatedStep(t)
        \/ UltraVerifyStepOf(t)

SpecReentrant == InitReentrant /\ [][NextReentrant]_vars

\* what one uninterrupted call of the verifier returns on the shared arguments
WholeCall ==
    IF artifact.kind = "simple"
    THEN VerifyAggregated(artifact.value)
    ELSE UltraVerify(artifact.value, artifact.pubkeys, artifact.message_hashes)

C15_EmptyInput ==
    [][(/\ ret'.op = "AddSignature"
        /\ ret'.arg.signature.size = 0 \/ ret'.arg.pubkey.size = 0)
           => /\ ret'.result = FALSE
              /\ UNCHANGED << pending_signatures, pending_pubkeys,
                              pending_hashes >>]_vars

\* AddSignature has returned failure for a zero-length public key given with
\* a signature of full length, while the batch holds an entry
C15_Witness ==
    /\ ret.op = "AddSignature"
    /\ ret.arg.pubkey.size = 0
    /\ ret.arg.signature.size = 3309
    /\ ret.result = FALSE
    /\ Len(pending_signatures) > 0

(***************************************************************************)
(* SpecCalls: the owner of a prototype aggregator uses it in any order,    *)
(* and also calls UltraAggregate on lists of any lengths.                  *)
(***************************************************************************)
\* the lists handed to UltraAggregate: 0..MaxLen signatures, public keys
\* and hashes, the three lengths chosen independently
CallLists ==
    [signatures : SeqsUpTo({SignatureOf(PKA, H1)}, MaxLen),
     pubkeys : SeqsUpTo({PKA}, MaxLen),
     message_hashes : SeqsUpTo({H1}, MaxLen)]

\* UltraAggregate is called once, on lists of any lengths
UltraAggregateCall ==
    /\ artifact.kind = "none"
    /\ \E l \in CallLists :
          artifact' = [kind |-> "ultra", arg |-> l,
                       value |-> UltraAggregate(l.signatures, l.pubkeys,
                                                l.message_hashes)]
    /\ UNCHANGED << aggregatorVars, scaleVars, keyVars, systemVars, batch, vcall, calls >>

\* the entries the owner adds in this specification
CallInputs == {ValidEntry(PKA, H1), ValidEntry(PKB, H2)}

NextCalls ==
    \/ \E e \in CallInputs : AddSignature(e)
    \/ Aggregate
    \/ ClearBatch
    \/ UltraAggregateCall

SpecCalls == Init /\ [][NextCalls]_vars

\* C16: Aggregate() on a batch with no entries returns the error value
\* (signature_count 0, IsValid() false) and changes neither the batch nor
\* the recorded benchmarks; UltraAggregate on empty or unequal-length lists
\* returns a signature for which IsValid() is false.
C16_EmptyBatch ==
    /\ [][(ret'.op = "Aggregate" /\ pending_signatures = << >>)
              => /\ ret'.result.signature_count = 0
                 /\ ~IsValid(ret'.result)
                 /\ UNCHANGED << pending_signatures, pending_pubkeys,
                                 pending_hashes, benchmarks >>]_vars
    /\ []((/\ artifact.kind = "ultra"
           /\ \/ Len(artifact.arg.signatures) = 0
              \/ Len(artifact.arg.signatures) # Len(artifact.arg.pubkeys)
              \/ Len(artifact.arg.signatures) # Len(artifact.arg.message_hashes))
             => ~UltraIsValid(artifact.value))

\* Aggregate() has returned the error value on an empty batch of an
\* aggregator that has recorded a benchmark before, and UltraAggregate has
\* returned for a signature list longer than the list of public keys
C16_Witness ==
    /\ ret.op = "Aggregate"
    /\ ret.result.signature_count = 0
    /\ pending_signatures = << >>
    /\ Len(benchmarks) > 0
    /\ artifact.kind = "ultra"
    /\ Len(artifact.arg.signatures) > Len(artifact.arg.pubkeys)
    /\ artifact.value.signature_count = 0

\* C17: ClearBatch() always succeeds and leaves the aggregator as a fresh
\* one as far as aggregation is concerned: right after it the batch is empty
\* (GetBatchSize() is 0) and Aggregate() returns the empty-batch value; the
\* batch is thereafter exactly the entries added since, one per accepted
\* AddSignature, and an aggregate carries exactly the batch of its call.
C17_ClearBatchResets ==
    [][/\ ret'.op = "ClearBatch"
            => /\ ret'.result = TRUE
               /\ pending_signatures' = << >>
               /\ pending_pubkeys' = << >>
               /\ pending_hashes' = << >>
       /\ (ret.op = "ClearBatch" /\ ret'.op = "Aggregate")
            => /\ ret'.result = SimpleAggregatedSignature
               /\ ~IsValid(ret'.result)
       /\ ret'.op = "AddSignature"
            => \/ UNCHANGED << pending_signatures, pending_pubkeys, pending_hashes >>
               \/ /\ pending_signatures' = Append(pending_signatures, ret'.arg.signature)
                  /\ pending_pubkeys' = Append(pending_pubkeys, ret'.arg.pubkey)
                  /\ pending_hashes' = Append(pending_hashes, ret'.arg.message_hash)
       /\ ret'.op \in {"Aggregate", "VerifyAggregated"}
            => UNCHANGED << pending_signatures, pending_pubkeys, pending_hashes >>
       /\ (ret'.op = "Aggregate" /\ pending_signatures # << >>)
            => /\ ret'.result.signature_count = Len(pending_signatures)
               /\ ret'.result.pubkey_data = pending_pubkeys
               /\ ret'.result.message_hashes = pending_hashes]_vars

\* an aggregate of one entry has been returned by an aggregator that first
\* aggregated a batch of MaxBatch entries: the batch was cleared in between
C17_Witness ==
    /\ ret.op = "Aggregate"
    /\ ret.result.signature_count = 1
    /\ Len(benchmarks) = 2
    /\ benchmarks[1].signature_count = MaxBatch
    /\ benchmarks[2].signature_count = 1

(***************************************************************************)
(* SpecKeys: a QKey and its caller's public key and signature, and the     *)
(* CQuantumKeyPair values made from seeds.  Every call of the primitive's  *)
(* KeyGen returns the next, fresh key pair.                                *)
(***************************************************************************)
\* QKey::MakeNewKey: keypair(pk, keydata->data()); pk is dropped
MakeNewKey ==
    /\ keygen < MaxKeyGen
    /\ keygen' = keygen + 1
    /\ qkey' = keygen + 1
    /\ kret' = [op |-> "MakeNewKey", arg |-> << >>, result |-> TRUE]
    /\ UNCHANGED << qpub, qsig, pairs, aggregatorVars, scaleVars, verifyVars, systemVars >>

\* QKey::GetPubKey: keypair(pk, sk_copy) on a copy of keydata, pk returned
GetPubKey ==
    /\ keygen < MaxKeyGen
    /\ IF qkey = 0
       THEN /\ qpub' = [key |-> qkey, vch |-> InvalidPubKey]
            /\ UNCHANGED keygen
       ELSE /\ keygen' = keygen + 1
            /\ qpub' = [key |-> qkey, vch |-> PubKeyOfPair(keygen + 1)]
    /\ kret' = [op |-> "GetPubKey", arg |-> << >>, result |-> qpub'.vch]
    /\ UNCHANGED << qkey, qsig, pairs, aggregatorVars, scaleVars, verifyVars, systemVars >>

\* QKey::Sign: the primitive's signature of hash under keydata
Sign(hash) ==
    /\ IF qkey = 0
       THEN /\ UNCHANGED qsig
            /\ kret' = [op |-> "Sign", arg |-> hash, result |-> FALSE]
       ELSE /\ qsig' = [key |-> qkey, hash |-> hash,
                        vch |-> SignatureOf(PubKeyOfPair(qkey), hash)]
            /\ kret' = [op |-> "Sign", arg |-> hash, result |-> TRUE]
    /\ UNCHANGED << keygen, qkey, qpub, pairs, aggregatorVars, scaleVars, verifyVars, systemVars >>

\* QPubKey::Verify
QPubKeyVerify(vch, hash, vchSig) ==
    IF vch = InvalidPubKey THEN FALSE
    ELSE IF vchSig.size > 3309 * 2 THEN FALSE
    ELSE PrimitiveVerify(vch, hash, vchSig)

\* the caller verifies the signature it holds under the public key it holds
Verify(hash) ==
    /\ kret' = [op |-> "Verify", arg |-> hash,
                result |-> QPubKeyVerify(qpub.vch, hash, qsig.vch)]
    /\ UNCHANGED << keygen, qkey, qpub, qsig, pairs, aggregatorVars, scaleVars,
                    verifyVars, systemVars >>

\* the seeds given to FromSeed
Seeds == {H1, H2}

\* the pair FromSeed returns for a seed the ECDSA key accepts, n being the
\* key pair KeyGen returns inside CQKey::MakeNewKey: the public key cached
\* there is the one GetPubKey() returns, and the address is its Hash160
CQuantumKeyPair(seed, n) ==
    [seed_data |-> seed,
     dilithium_key |-> n,
     dilithium_pubkey |-> PubKeyOfPair(n),
     address_hash |-> [Hash160 |-> PubKeyOfPair(n)],
     is_valid |-> TRUE]

\* CQuantumKeyPair::FromSeed
FromSeed(seed) ==
    /\ keygen < MaxKeyGen
    /\ keygen' = keygen + 1
    /\ pairs' = Append(pairs, [op |-> "FromSeed", arg |-> seed,
                               result |-> CQuantumKeyPair(seed, keygen + 1)])
    /\ UNCHANGED << qkey, qpub, qsig, kret, aggregatorVars, scaleVars, verifyVars, systemVars >>

\* CQuantumKeyPair::Derive on the pair returned by call p: FromSeed of the
\* hash of the parent's seed, the tag and the index
Derive(p, index) ==
    /\ keygen < MaxKeyGen
    /\ pairs[p].result.is_valid
    /\ keygen' = keygen + 1
    /\ pairs' = Append(pairs,
          [op |-> "Derive", arg |-> [parent |-> p, index |-> index],
           result |-> CQuantumKeyPair(
               [Hash256 |-> << pairs[p].result.seed_data, "QBTC_CHILD_DERIVE", index >>],
               keygen + 1)])
    /\ UNCHANGED << qkey, qpub, qsig, kret, aggregatorVars, scaleVars, verifyVars, systemVars >>

NextKeys ==
    \/ MakeNewKey
    \/ GetPubKey
    \/ \E hash \in {H1, H2} : Sign(hash)
    \/ \E hash \in {H1, H2} : Verify(hash)
    \/ \E seed \in Seeds : FromSeed(seed)
    \/ \E p \in DOMAIN pairs, index \in {0, 1} : Derive(p, index)

SpecKeys == Init /\ [][NextKeys]_vars

\* C18: a signature made by k.Sign(h) verifies under the public key returned
\* by k.GetPubKey(), and does not verify for another digest: when the caller
\* verifies a signature and a public key that it got from the same valid
\* QKey, QPubKey::Verify returns true exactly for the digest that was signed.
C18_SignVerifyRoundTrip ==
    [][(/\ kret'.op = "Verify"
        /\ qsig.key # 0
        /\ qpub.key = qsig.key)
           => (kret'.result <=> kret'.arg = qsig.hash)]_vars

\* C19: two FromSeed calls with the same seed, and two Derive calls on the
\* same parent with the same index, return pairs with the same address hash
\* and the same Dilithium public key.
C19_DeterministicDerivation ==
    \A a, b \in DOMAIN pairs :
        (pairs[a].op = pairs[b].op /\ pairs[a].arg = pairs[b].arg)
            => /\ pairs[a].result.address_hash = pairs[b].result.address_hash
               /\ pairs[a].result.dilithium_pubkey = pairs[b].result.dilithium_pubkey

\* the value of a component modulo DILITHIUM_Q, from its four bytes
ComponentModQ(component) ==
    (component[1] + 256 * component[2] + 65536 * component[3]
        + component[4] * (16777216 % DILITHIUM_Q)) % DILITHIUM_Q

\* the sum, modulo DILITHIUM_Q, of the components i that the loops extract
\* from the first n signatures
RECURSIVE SumModQ(_, _, _)
SumModQ(signatures, i, n) ==
    IF n = 0 THEN 0
    ELSE LET signature == signatures[n]
             extracted == /\ signature.size >= 3309
                          /\ i < DILITHIUM_N
                          /\ i * 4 + 100 < signature.size
         IN  (SumModQ(signatures, i, n - 1)
                 + IF extracted THEN ComponentModQ(UltraComponent(signature, i)) ELSE 0)
             % DILITHIUM_Q

\* C20: once the signatures of a block have been aggregated, each aggregated
\* response coefficient j of compress_response_vectors and
\* aggregate_dilithium_responses equals the sum over the signatures of their
\* 32-bit little-endian components j, reduced modulo 8380417.
C20_CoordinatewiseModularAddition ==
    artifact.kind \in {"ultra", "block"} =>
        \A j \in 0..(DILITHIUM_N - 1) :
            aggregate_dilithium_responses(batch.signatures, j)
                = SumModQ(batch.signatures, j, Len(batch.signatures))

\* the commitment of the presented signature matches the presented lists
CommitmentMatches ==
    /\ UltraCheck("verification_key", artifact.value, artifact.pubkeys,
                  artifact.message_hashes)
    /\ UltraCheck("challenge_hash", artifact.value, artifact.pubkeys,
                  artifact.message_hashes)

\* C21: UltraVerify evaluates the coefficient range check only after the
\* count check, the verification-key comparison and the challenge-hash
\* comparison have passed; when the verification key or the challenge hash
\* does not match, no call reaches the coefficients and every call returns
\* false.
C21_FixedCheckOrder ==
    artifact.kind = "ultra" =>
        \A t \in Threads :
            /\ (calls[t].pc > 0 /\ UltraChecks[calls[t].pc] = "coefficients")
                  => /\ UltraCheck("count", artifact.value, artifact.pubkeys,
                                   artifact.message_hashes)
                     /\ CommitmentMatches
            /\ ~CommitmentMatches => calls[t].seen \subseteq {FALSE}

\* a call has returned for a signature whose count fits the lists and whose
\* commitment does not, while another call is in the middle of its checks
C21_Witness ==
    /\ artifact.kind = "ultra"
    /\ DOMAIN calls = Threads
    /\ UltraCheck("count", artifact.value, artifact.pubkeys, artifact.message_hashes)
    /\ ~CommitmentMatches
    /\ \E t, u \in Threads :
          /\ calls[t].seen = {FALSE}
          /\ calls[u].pc > 1

\* C22: the three pending lists always have the same length; every accepted
\* AddSignature call puts its three arguments at the end of the three lists
\* and a rejected one changes nothing, so that after k accepted calls since
\* construction or the last ClearBatch() the lists hold the arguments of
\* those calls in call order; and Aggregate() returns signature_count = k
\* with pubkey_data and message_hashes equal to those lists.
C22_BatchOrderAndCount ==
    /\ [](/\ Len(pending_signatures) = Len(pending_pubkeys)
          /\ Len(pending_signatures) = Len(pending_hashes))
    /\ [][/\ ret'.op = "AddSignature"
               => IF ret'.result
                  THEN /\ pending_signatures'
                              = Append(pending_signatures, ret'.arg.signature)
                       /\ pending_pubkeys' = Append(pending_pubkeys, ret'.arg.pubkey)
                       /\ pending_hashes'
                              = Append(pending_hashes, ret'.arg.message_hash)
                  ELSE UNCHANGED << pending_signatures, pending_pubkeys,
                                    pending_hashes >>
          /\ (ret'.op = "Aggregate" /\ pending_signatures # << >>)
               => /\ ret'.result.signature_count = Len(pending_signatures)
                  /\ \A i \in 1..Len(pending_signatures) :
                        /\ ret'.result.pubkey_data[i] = pending_pubkeys[i]
                        /\ ret'.result.message_hashes[i] = pending_hashes[i]]_vars

\* Aggregate() has returned for a batch of MaxBatch entries with different
\* public keys and different hashes
C22_Witness ==
    /\ ret.op = "Aggregate"
    /\ ret.result.signature_count = MaxBatch
    /\ ret.result.pubkey_data[1] # ret.result.pubkey_data[MaxBatch]
    /\ ret.result.message_hashes[1] # ret.result.message_hashes[MaxBatch]
    /\ ret.result.pubkey_data = pending_pubkeys

\* the loop of compress_response_vectors over the signatures reaches the
\* addition for this signature: it is not passed over by "continue", and
\* the coefficient loop runs at least once
FoldedIntoResponse(signature) ==
    /\ ~(signature.size < 3309)
    /\ \E i \in 0..(DILITHIUM_N - 1) : i * 4 + 100 < signature.size

\* C23: for every input accepted by UltraAggregate, each of the
\* signature_count signatures has its response components folded into the
\* aggregated response: none is skipped while counted in signature_count.
C23_EverySignatureFolded ==
    LET sig == IF artifact.kind = "block"
               THEN artifact.value.aggregated_signature ELSE artifact.value
    IN  (artifact.kind \in {"ultra", "block"} /\ UltraIsValid(sig))
            => /\ sig.signature_count = Len(batch.signatures)
               /\ \A k \in 1..sig.signature_count :
                      FoldedIntoResponse(batch.signatures[k])

(***************************************************************************)
(* SpecTx: CQuantumTransactionValidator::ValidateTransaction on            *)
(* transactions whose inputs carry witness stacks of 0..4 elements.  A     *)
(* stack element is [kind, value]: what its bytes deserialize to.          *)
(***************************************************************************)
\* CQuantumWitness values; agg_signature stands for a CAggregatedSignature
\* by the results of its IsValid() and of VerifyAggregated on it
QuantumWitnesses ==
    {[agg_signature |-> [is_valid |-> v, verifies |-> v],
      pubkeys |-> [i \in 1..n |-> PubKeyOfPair(1)],
      address_hashes |-> [i \in 1..n |-> [Hash160 |-> PubKeyOfPair(1)]],
      input_count |-> IF zero THEN 0 ELSE n] :
          v \in BOOLEAN, n \in 1..MaxInputs, zero \in BOOLEAN}

\* CQuantumWitness::ToScriptWitness
ToScriptWitness(w) ==
    << [kind |-> "agg_signature", value |-> w.agg_signature],
       [kind |-> "pubkeys", value |-> w.pubkeys],
       [kind |-> "address_hashes", value |-> w.address_hashes],
       [kind |-> "count", value |-> w.input_count] >>

\* a stack element that is a signature or a public key of one input, or
\* bytes that are neither
PlainElements ==
    {[kind |-> "signature", value |-> 1], [kind |-> "bytes", value |-> 0]}

\* the witness stacks of an input
WitnessStacks ==
    SeqsUpTo(PlainElements, 2)
        \cup {<< e, e, e >> : e \in PlainElements}
        \cup {<< e, e, e, e >> : e \in PlainElements}
        \cup {ToScriptWitness(w) : w \in QuantumWitnesses}

\* tx.vin, each input given by its scriptWitness.stack
Transactions == SeqsUpTo(WitnessStacks, MaxInputs)

\* CQuantumWitness::IsValid: every path returns false
CQuantumWitnessIsValid(w) ==
    IF w.input_count = 0 THEN FALSE
    ELSE IF ~w.agg_signature.is_valid THEN FALSE
    ELSE IF Len(w.pubkeys) # w.input_count \/ Len(w.address_hashes) # w.input_count
    THEN FALSE
    ELSE IF \E i \in 1..Len(w.pubkeys) : w.pubkeys[i] = InvalidPubKey THEN FALSE
    ELSE FALSE

\* CQuantumWitness::FromScriptWitness: whether it returns true
FromScriptWitness(stack) ==
    IF Len(stack) # 4 THEN FALSE
    ELSE IF \/ stack[1].kind # "agg_signature"
            \/ stack[2].kind # "pubkeys"
            \/ stack[3].kind # "address_hashes"
            \/ stack[4].kind # "count"
    THEN FALSE
    ELSE CQuantumWitnessIsValid([agg_signature |-> stack[1].value,
                                 pubkeys |-> stack[2].value,
                                 address_hashes |-> stack[3].value,
                                 input_count |-> stack[4].value])

\* ValidateAggregatedTransaction with ValidateQuantumWitness: the result,
\* and the inputs covered by a signature check that succeeded
ValidateAggregatedTransaction(vin) ==
    LET stack == vin[1]
        rejected == [result |-> FALSE, checked |-> {}]
    IN  IF ~FromScriptWitness(stack) THEN rejected
        ELSE IF ~CQuantumWitnessIsValid([agg_signature |-> stack[1].value,
                    pubkeys |-> stack[2].value, address_hashes |-> stack[3].value,
                    input_count |-> stack[4].value]) THEN rejected
        ELSE IF stack[4].value # Len(vin) THEN rejected
        ELSE IF \E i \in 2..Len(vin) : vin[i] # stack THEN rejected
        ELSE IF \E i \in 1..Len(vin) :
                    stack[3].value[i] # [Hash160 |-> stack[2].value[i]] THEN rejected
        ELSE IF ~stack[1].value.verifies THEN rejected
        ELSE [result |-> TRUE, checked |-> 1..Len(vin)]

\* ValidateTransaction: the result, and the inputs covered by a signature
\* check that succeeded; the loop over the inputs checks no signature
ValidateTransaction(vin) ==
    IF vin = << >> THEN [result |-> FALSE, checked |-> {}]
    ELSE IF Len(vin[1]) = 4 THEN ValidateAggregatedTransaction(vin)
    ELSE IF \E i \in 1..Len(vin) : Len(vin[i]) < 2
         THEN [result |-> FALSE, checked |-> {}]
         ELSE [result |-> TRUE, checked |-> {}]

ValidateTransactionCall ==
    /\ \E vin \in Transactions :
          vcall' = [op |-> "ValidateTransaction", arg |-> vin,
                    result |-> ValidateTransaction(vin).result,
                    checked |-> ValidateTransaction(vin).checked]
    /\ UNCHANGED << aggregatorVars, scaleVars, keyVars, systemVars, batch, artifact, calls >>

SpecTx == Init /\ [][ValidateTransactionCall]_vars

AsyncSignatures == {<< SignatureOf(PKA, H1) >>, << SignatureOf(PKB, H2) >>, << >>}

AsyncPubkeys == {<< PKA >>, << PKB >>}

AsyncHashes == {<< H1 >>, << H2 >>}

AsyncLists ==
    [signatures : AsyncSignatures, pubkeys : AsyncPubkeys, message_hashes : AsyncHashes]

\* the future holds nothing before the task returns
NoValue == [kind |-> "none", value |-> UltraCompressedSignature]

\* what the task reads through its reference to a list
ReadThrough(field) ==
    IF task.lists_alive /\ task.aggregator_alive
    THEN {task.lists[field]}
    ELSE {l[field] : l \in AsyncLists}

\* ParallelAggregate(signatures, pubkeys, message_hashes): std::async
\* starts the task and the future is returned at once
ParallelAggregate ==
    /\ task.state = "none"
    /\ \E l \in AsyncLists :
          task' = [state |-> "launched", at_call |-> l, lists |-> l,
                   lists_alive |-> TRUE, aggregator_alive |-> TRUE,
                   result |-> UltraCompressedSignature, future |-> NoValue]
    /\ UNCHANGED << aggregatorVars, scaleVars, verifyVars, keyVars,
                    manager, wallet, ckeys >>

TaskStep(next) ==
    /\ task' = next
    /\ UNCHANGED << aggregatorVars, scaleVars, verifyVars, keyVars,
                    manager, wallet, ckeys >>

Running == task.state \in {"launched", "checked", "compressed", "challenged"}

\* the caller assigns to one of its lists before the future completes
CallerModifies ==
    /\ Running /\ task.lists_alive
    /\ \E l \in AsyncLists :
          /\ \E f \in {"signatures", "pubkeys", "message_hashes"} :
                \A g \in {"signatures", "pubkeys", "message_hashes"} :
                    (l[g] # task.lists[g]) <=> (g = f)
          /\ TaskStep([task EXCEPT !.lists = l])

\* the caller's lists go out of scope before the future completes
CallerDestroysLists ==
    /\ Running /\ task.lists_alive
    /\ TaskStep([task EXCEPT !.lists_alive = FALSE])

\* the aggregator is destroyed before the future completes
CallerDestroysAggregator ==
    /\ Running /\ task.aggregator_alive
    /\ TaskStep([task EXCEPT !.aggregator_alive = FALSE])

\* advanced_aggregation.cpp:182-186, the guard of UltraAggregate
TaskChecksSizes ==
    /\ task.state = "launched"
    /\ \E s \in ReadThrough("signatures"), p \in ReadThrough("pubkeys"),
          h \in ReadThrough("message_hashes") :
          IF Len(s) = 0 \/ Len(s) # Len(p) \/ Len(s) # Len(h)
          THEN TaskStep([task EXCEPT !.state = "done",
                   !.future = [kind |-> "value", value |-> task.result]])
          ELSE TaskStep([task EXCEPT !.state = "checked"])

\* advanced_aggregation.cpp:199-202, signature_count and aggregated_z
TaskCompressesResponses ==
    /\ task.state = "checked"
    /\ \E s \in ReadThrough("signatures") :
          LET z == compress_response_vectors(s)
          IN  TaskStep([task EXCEPT !.state = "compressed",
                  !.result = [task.result EXCEPT
                      !.magic_byte = 81,
                      !.signature_count = Len(s),
                      !.aggregated_z = << U32LE(z[1]), U32LE(z[2]),
                                          U32LE(z[3]), U32LE(z[4]) >>]])

\* advanced_aggregation.cpp:203, challenge_hash
TaskCompressesChallenges ==
    /\ task.state = "compressed"
    /\ \E h \in ReadThrough("message_hashes") :
          TaskStep([task EXCEPT !.state = "challenged",
              !.result = [task.result EXCEPT
                  !.challenge_hash = compress_challenges(h)]])

\* advanced_aggregation.cpp:204-221, verification_key and the return
TaskReturns ==
    /\ task.state = "challenged"
    /\ \E p \in ReadThrough("pubkeys"), h \in ReadThrough("message_hashes") :
          LET r == [task.result EXCEPT
                        !.verification_key = compute_batch_verification_key(p, h)]
          IN  TaskStep([task EXCEPT !.state = "done", !.result = r,
                            !.future = [kind |-> "value", value |-> r]])

\* the task reads through a dangling reference and the program crashes
TaskCrashes ==
    /\ Running
    /\ ~(task.lists_alive /\ task.aggregator_alive)
    /\ TaskStep([task EXCEPT !.state = "done",
                     !.future = [kind |-> "crash", value |-> task.result]])

NextAsync ==
    \/ ParallelAggregate
    \/ CallerModifies
    \/ CallerDestroysLists
    \/ CallerDestroysAggregator
    \/ TaskChecksSizes
    \/ TaskCompressesResponses
    \/ TaskCompressesChallenges
    \/ TaskReturns
    \/ TaskCrashes

SpecAsync == Init /\ [][NextAsync]_vars

\* C25: the future returned by ParallelAggregate yields UltraAggregate of
\* the contents the three lists had at the time of the call, whatever the
\* caller does to the lists or to the aggregator before the future
\* completes.
C25_FutureOfCallTimeContents ==
    task.state = "done"
        => task.future = [kind |-> "value",
                value |-> UltraAggregate(task.at_call.signatures,
                              task.at_call.pubkeys, task.at_call.message_hashes)]

(***************************************************************************)
(* SpecWallet: CQuantumWalletManager (compressed_quantum_keys.h:193-227,   *)
(* compressed_quantum_keys.cpp:693-746, 826-858).  keypairs is the vector, *)
(* address_to_index the std::map from address hash to the 0-based index.   *)
(***************************************************************************)
\* a default-constructed CQuantumKeyPair (compressed_quantum_keys.cpp:25-29)
InvalidKeyPair ==
    [seed_data |-> H3, dilithium_key |-> 0, dilithium_pubkey |-> InvalidPubKey,
     address_hash |-> [Hash160 |-> InvalidPubKey], is_valid |-> FALSE]

\* the key pairs a caller can hold: FromSeed succeeded with one of the
\* primitive's key pairs, or failed
WalletKeyPairs ==
    {CQuantumKeyPair(H1, n) : n \in 1..MaxKeyGen} \cup {InvalidKeyPair}

AddressHashes == {kp.address_hash : kp \in WalletKeyPairs}

\* address_to_index[address_hash] = index
MapPut(map, key, value) ==
    [k \in DOMAIN map \cup {key} |-> IF k = key THEN value ELSE map[k]]

\* AddKeyPair that does not look the address up before it stores the pair
AddKeyPairWithoutDuplicateCheck(w, keypair) ==
    IF ~keypair.is_valid
    THEN [keypairs |-> w.keypairs, address_to_index |-> w.address_to_index,
          result |-> FALSE]
    ELSE [keypairs |-> Append(w.keypairs, keypair),
          address_to_index |-> MapPut(w.address_to_index, keypair.address_hash,
                                      Len(w.keypairs)),
          result |-> TRUE]

\* CQuantumWalletManager::AddKeyPair on the members w: the members after
\* the call and the value returned
AddKeyPair(w, keypair) ==
    IF ~keypair.is_valid
    THEN [keypairs |-> w.keypairs, address_to_index |-> w.address_to_index,
          result |-> FALSE]
    ELSE IF keypair.address_hash \in DOMAIN w.address_to_index
    THEN [keypairs |-> w.keypairs, address_to_index |-> w.address_to_index,
          result |-> FALSE]
    ELSE [keypairs |-> Append(w.keypairs, keypair),
          address_to_index |-> MapPut(w.address_to_index, keypair.address_hash,
                                      Len(w.keypairs)),
          result |-> TRUE]

\* Clear()
Cleared == [keypairs |-> << >>, address_to_index |-> << >>, result |-> TRUE]

\* the loop of LoadFromFile over the key pairs that Deserialize accepted
RECURSIVE LoadKeyPairs(_, _)
LoadKeyPairs(w, records) ==
    IF records = << >> THEN w
    ELSE LoadKeyPairs(IF Head(records).is_valid
                      THEN AddKeyPair(w, Head(records)) ELSE w,
                      Tail(records))

WalletCall(op, arg, after, result) ==
    /\ wallet' = [keypairs |-> after.keypairs,
                  address_to_index |-> after.address_to_index,
                  ret |-> [op |-> op, arg |-> arg, result |-> result]]
    /\ UNCHANGED << aggregatorVars, scaleVars, verifyVars, keyVars,
                    task, manager, ckeys >>

\* GenerateNewKeyPair(): Generate() returns a pair, stored when valid
GenerateNewKeyPair ==
    \E keypair \in WalletKeyPairs :
        WalletCall("GenerateNewKeyPair", << >>,
                   IF keypair.is_valid THEN AddKeyPair(wallet, keypair) ELSE wallet,
                   keypair)

AddKeyPairCall ==
    \E keypair \in WalletKeyPairs :
        WalletCall("AddKeyPair", keypair, AddKeyPair(wallet, keypair),
                   AddKeyPair(wallet, keypair).result)

\* GetKeyPairByAddress(address_hash): the pair at the index found, or null
GetKeyPairByAddress(address_hash) ==
    IF address_hash \notin DOMAIN wallet.address_to_index
    THEN InvalidKeyPair
    ELSE wallet.keypairs[wallet.address_to_index[address_hash] + 1]

GetKeyPairByAddressCall ==
    \E a \in AddressHashes :
        WalletCall("GetKeyPairByAddress", a, wallet,
                   [null |-> a \notin DOMAIN wallet.address_to_index,
                    keypair |-> GetKeyPairByAddress(a)])

\* LoadFromFile(filename): the file does not open and nothing changes, or
\* the members are cleared and the records read are added one by one; a
\* read that throws ends the loop and false is returned
LoadFromFile ==
    \/ WalletCall("LoadFromFile", << >>, wallet, FALSE)
    \/ \E records \in SeqsUpTo(WalletKeyPairs, MaxLen), thrown \in BOOLEAN :
          WalletCall("LoadFromFile", records, LoadKeyPairs(Cleared, records),
                     ~thrown)

ClearCall == WalletCall("Clear", << >>, Cleared, TRUE)

NextWallet ==
    \/ GenerateNewKeyPair
    \/ AddKeyPairCall
    \/ GetKeyPairByAddressCall
    \/ LoadFromFile
    \/ ClearCall

SpecWallet == Init /\ [][NextWallet]_vars

\* C28: after any sequence of GenerateNewKeyPair, AddKeyPair, LoadFromFile
\* and Clear, address_to_index has exactly one entry per stored key pair and
\* maps the address hash of each stored pair to its position in keypairs, so
\* no address is stored twice, and GetKeyPairByAddress(a) returns a pair
\* whose address hash is a, or null exactly when a is not stored.
C28_IndexConsistent ==
    /\ DOMAIN wallet.address_to_index =
           {wallet.keypairs[i].address_hash : i \in DOMAIN wallet.keypairs}
    /\ \A i \in DOMAIN wallet.keypairs :
           /\ wallet.address_to_index[wallet.keypairs[i].address_hash] = i - 1
           /\ wallet.keypairs[i].is_valid
    /\ \A i, j \in DOMAIN wallet.keypairs :
           wallet.keypairs[i].address_hash = wallet.keypairs[j].address_hash
               => i = j
    /\ wallet.ret.op = "GetKeyPairByAddress"
           => IF \E i \in DOMAIN wallet.keypairs :
                     wallet.keypairs[i].address_hash = wallet.ret.arg
              THEN /\ ~wallet.ret.result.null
                   /\ wallet.ret.result.keypair.address_hash = wallet.ret.arg
              ELSE wallet.ret.result.null

\* a wallet of two key pairs in which a lookup has found the second pair
C28_Witness ==
    /\ Len(wallet.keypairs) = 2
    /\ wallet.ret.op = "GetKeyPairByAddress"
    /\ wallet.ret.arg = wallet.keypairs[2].address_hash
    /\ ~wallet.ret.result.null

(***************************************************************************)
(* SpecManager: CQuantumManager (quantum/manager.h:21-41,                  *)
(* quantum/manager.cpp:7-56).  instance is the static unique_ptr, 0 for    *)
(* nullptr; objects are the CQuantumManager objects constructed so far,    *)
(* by number.  The static functions take no lock: each thread runs them    *)
(* statement by statement.  A write through a reference to a destroyed     *)
(* object, or through the null instance, is undefined: it has no visible   *)
(* effect or the program crashes.                                          *)
(***************************************************************************)
\* CQuantumManager::CQuantumManager (manager.cpp:9-13); aggregator is
\* TRUE when the unique_ptr holds an object
NewManager ==
    [alive |-> TRUE, quantum_enabled |-> TRUE, aggregation_enabled |-> TRUE,
     aggregator |-> FALSE]

Live(o) == o # 0 /\ manager.objects[o].alive

ManagerStep(t, thread, instance, objects) ==
    /\ ~manager.crashed
    /\ manager' = [manager EXCEPT !.threads[t] = thread, !.instance = instance,
                                  !.objects = objects]
    /\ UNCHANGED << aggregatorVars, scaleVars, verifyVars, keyVars,
                    task, wallet, ckeys >>

\* a write through o: done when o is live, undefined otherwise
WriteThrough(t, thread, o, written) ==
    IF Live(o)
    THEN ManagerStep(t, thread, manager.instance,
                     [manager.objects EXCEPT ![o] = written])
    ELSE \/ ManagerStep(t, thread, manager.instance, manager.objects)
         \/ /\ ~manager.crashed
            /\ manager' = [manager EXCEPT !.crashed = TRUE]
            /\ UNCHANGED << aggregatorVars, scaleVars, verifyVars, keyVars,
                            task, wallet, ckeys >>

\* a thread calls GetInstance(), Initialize(enable_quantum,
\* enable_aggregation) or Shutdown()
BeginCall(t) ==
    LET th == manager.threads[t] IN
    /\ th.pc = "idle"
    /\ th.calls < MaxCalls
    /\ ~manager.crashed
    /\ \E op \in {"GetInstance", "Initialize", "Shutdown"}, q, a \in BOOLEAN :
          /\ (op # "Initialize") => (~q /\ ~a)
          /\ manager' = [manager EXCEPT
                 !.threads[t] = [th EXCEPT !.op = op, !.enable_quantum = q,
                     !.enable_aggregation = a, !.calls = th.calls + 1,
                     !.pc = IF op = "Shutdown" THEN "shutdown_test" ELSE "test"],
                 !.shutdown_called = manager.shutdown_called \/ op = "Shutdown"]
    /\ UNCHANGED << aggregatorVars, scaleVars, verifyVars, keyVars,
                    task, wallet, ckeys >>

\* manager.cpp:17, if (!instance)
GetInstanceTest(t) ==
    LET th == manager.threads[t] IN
    /\ th.pc = "test"
    /\ ManagerStep(t, [th EXCEPT !.pc = IF manager.instance = 0
                                        THEN "construct" ELSE "return"],
                   manager.instance, manager.objects)

\* manager.cpp:18, new CQuantumManager()
GetInstanceConstruct(t) ==
    LET th == manager.threads[t] IN
    /\ th.pc = "construct"
    /\ ManagerStep(t, [th EXCEPT !.pc = "reset",
                                 !.made = Len(manager.objects) + 1],
                   manager.instance, Append(manager.objects, NewManager))

\* manager.cpp:18, instance.reset(p): the object held before is destroyed
GetInstanceReset(t) ==
    LET th == manager.threads[t]
        old == manager.instance
    IN  /\ th.pc = "reset"
        /\ ManagerStep(t, [th EXCEPT !.pc = "return"], th.made,
               IF old = 0 THEN manager.objects
               ELSE [manager.objects EXCEPT ![old].alive = FALSE])

\* manager.cpp:20, return *instance; GetInstance() hands the reference to
\* its caller, Initialize keeps it in its local manager (manager.cpp:27)
GetInstanceReturn(t) ==
    LET th == manager.threads[t] IN
    /\ th.pc = "return"
    /\ ManagerStep(t,
           IF th.op = "GetInstance"
           THEN [th EXCEPT !.pc = "idle", !.held = manager.instance]
           ELSE [th EXCEPT !.pc = "configure", !.ref = manager.instance],
           manager.instance, manager.objects)

\* manager.cpp:28-29
InitializeConfigure(t) ==
    LET th == manager.threads[t] IN
    /\ th.pc = "configure"
    /\ WriteThrough(t,
           [th EXCEPT !.pc = IF th.enable_aggregation
                             THEN "make_aggregator" ELSE "idle"],
           th.ref,
           [manager.objects[th.ref] EXCEPT
               !.quantum_enabled = th.enable_quantum,
               !.aggregation_enabled = th.enable_aggregation])

\* manager.cpp:31-39: make_unique<CDilithiumAggregator>() succeeds, or it
\* throws and the handler clears aggregation_enabled
InitializeAggregator(t) ==
    LET th == manager.threads[t] IN
    /\ th.pc = "make_aggregator"
    /\ \E thrown \in BOOLEAN :
          WriteThrough(t, [th EXCEPT !.pc = "idle"], th.ref,
              IF thrown
              THEN [manager.objects[th.ref] EXCEPT !.aggregation_enabled = FALSE]
              ELSE [manager.objects[th.ref] EXCEPT !.aggregator = TRUE])

\* manager.cpp:50, if (instance)
ShutdownTest(t) ==
    LET th == manager.threads[t] IN
    /\ th.pc = "shutdown_test"
    /\ ManagerStep(t, [th EXCEPT !.pc = IF manager.instance = 0
                                        THEN "idle" ELSE "reset_aggregator"],
                   manager.instance, manager.objects)

\* manager.cpp:51, instance->aggregator.reset()
ShutdownAggregator(t) ==
    LET th == manager.threads[t] IN
    /\ th.pc = "reset_aggregator"
    /\ WriteThrough(t, [th EXCEPT !.pc = "reset_instance"], manager.instance,
           [manager.objects[manager.instance] EXCEPT !.aggregator = FALSE])

\* manager.cpp:52, instance.reset()
ShutdownReset(t) ==
    LET th == manager.threads[t]
        old == manager.instance
    IN  /\ th.pc = "reset_instance"
        /\ ManagerStep(t, [th EXCEPT !.pc = "idle"], 0,
               IF old = 0 THEN manager.objects
               ELSE [manager.objects EXCEPT ![old].alive = FALSE])

NextManager ==
    \E t \in 1..MaxThreads :
        \/ BeginCall(t)
        \/ GetInstanceTest(t)
        \/ GetInstanceConstruct(t)
        \/ GetInstanceReset(t)
        \/ GetInstanceReturn(t)
        \/ InitializeConfigure(t)
        \/ InitializeAggregator(t)
        \/ ShutdownTest(t)
        \/ ShutdownAggregator(t)
        \/ ShutdownReset(t)

SpecManager == Init /\ [][NextManager]_vars

\* C26: under any interleaving of concurrent GetInstance() / Initialize()
\* calls made when no instance exists, exactly one CQuantumManager is
\* constructed, and every reference returned by GetInstance() refers to the
\* live instance until Shutdown() is called.
C26_SingletonSafety ==
    ~manager.shutdown_called
        => /\ Len(manager.objects) <= 1
           /\ \A t \in 1..MaxThreads :
                 manager.threads[t].held # 0
                     => /\ manager.threads[t].held = manager.instance
                        /\ Live(manager.threads[t].held)

\* C27: in every state reached by a sequence of GetInstance(), Initialize
\* and Shutdown() calls (no call under way), IsAggregationEnabled() is true
\* exactly when aggregator is non-null.
C27_EnabledIffAggregator ==
    ((\A t \in 1..MaxThreads : manager.threads[t].pc = "idle")
        /\ ~manager.crashed /\ Live(manager.instance))
        => (manager.objects[manager.instance].aggregation_enabled
               <=> manager.objects[manager.instance].aggregator)

(***************************************************************************)
(* SpecCQKey: CQKey (key.h:88-169, key.cpp:24-96, 156-188, 743-760).       *)
(* keydata is the number of the key pair whose secret key the bytes are,   *)
(* 0 for all-zero bytes, -1 for a null keydata; cached is cached_pubkey    *)
(* with pubkey_cached; returned is what GetPubKey() returned to the caller *)
(* since the object was last written.  qbtc_dilithium3_keypair is the      *)
(* primitive's KeyGen: every call returns the next key pair.               *)
(***************************************************************************)
DILITHIUM_SECRETKEY_SIZE == 4032

NoPubKey == [set |-> FALSE, vch |-> InvalidPubKey]

PubKey(vch) == [set |-> TRUE, vch |-> vch]

\* CQKey() with keydata null and no cache
NullKey == [keydata |-> -1, cached |-> NoPubKey, returned |-> NoPubKey]

\* MakeKeyData() followed by the copy of the bytes: the cache is dropped
KeyOfBytes(pair) == [keydata |-> pair, cached |-> NoPubKey, returned |-> NoPubKey]

\* byte strings handed to Set, SetPrivKeyData and Load: the secret key of a
\* pair made so far or all zeros, of the right size or of 32 bytes
KeyBytes == [size : {DILITHIUM_SECRETKEY_SIZE, 32}, pair : 0..keygen]

CQKeyStep(k, key, made) ==
    /\ ckeys' = [ckeys EXCEPT ![k] = key]
    /\ keygen' = keygen + made
    /\ UNCHANGED << qkey, qpub, qsig, kret, pairs, aggregatorVars, scaleVars,
                    verifyVars, task, manager, wallet >>

\* CQKey k; a default-constructed key
CQKeyConstruct ==
    /\ Len(ckeys) < MaxKeys
    /\ ckeys' = Append(ckeys, NullKey)
    /\ UNCHANGED << keyVars, aggregatorVars, scaleVars, verifyVars,
                    task, manager, wallet >>

\* CQKey::MakeNewKey (key.cpp:39-55): KeyGen, the public key is cached
CQKeyMakeNewKey(k) ==
    /\ keygen < MaxKeyGen
    /\ CQKeyStep(k, [keydata |-> keygen + 1,
                     cached |-> PubKey(PubKeyOfPair(keygen + 1)),
                     returned |-> NoPubKey], 1)

\* CQKey::Set (key.h:154-166)
CQKeySet(k, bytes) ==
    CQKeyStep(k, IF bytes.size = DILITHIUM_SECRETKEY_SIZE /\ bytes.pair # 0
                 THEN KeyOfBytes(bytes.pair) ELSE NullKey, 0)

\* the public-key cache after GetPubKey() on a valid key (key.cpp:72-95):
\* the cache if there is one, else the public key of a new pair from KeyGen
CacheAfterGetPubKey(key) ==
    IF key.cached.set THEN key.cached ELSE PubKey(PubKeyOfPair(keygen + 1))

\* CQKey::GetPubKey (key.cpp:67-96)
CQKeyGetPubKey(k) ==
    IF ckeys[k].keydata = -1
    THEN CQKeyStep(k, [ckeys[k] EXCEPT !.returned = PubKey(InvalidPubKey)], 0)
    ELSE /\ ckeys[k].cached.set \/ keygen < MaxKeyGen
         /\ CQKeyStep(k, [ckeys[k] EXCEPT
                              !.cached = CacheAfterGetPubKey(ckeys[k]),
                              !.returned = CacheAfterGetPubKey(ckeys[k])],
                      IF ckeys[k].cached.set THEN 0 ELSE 1)

\* CQKey::SetPrivKeyData (key.cpp:743-760): the bytes are copied and
\* GetPubKey() is called on the key, which has no cache then
CQKeySetPrivKeyData(k, data) ==
    IF data.size # DILITHIUM_SECRETKEY_SIZE
    THEN CQKeyStep(k, ckeys[k], 0)
    ELSE /\ keygen < MaxKeyGen
         /\ CQKeyStep(k, [KeyOfBytes(data.pair) EXCEPT
                              !.cached = PubKey(PubKeyOfPair(keygen + 1))], 1)

\* CQKey::Load (key.cpp:165-188)
CQKeyLoad(k, privkey, vchPubKey, fSkipCheck) ==
    IF privkey.size # DILITHIUM_SECRETKEY_SIZE
    THEN CQKeyStep(k, ckeys[k], 0)
    ELSE IF fSkipCheck
    THEN CQKeyStep(k, [KeyOfBytes(privkey.pair) EXCEPT !.cached = PubKey(vchPubKey)], 0)
    ELSE /\ keygen < MaxKeyGen
         /\ CQKeyStep(k, IF PubKeyOfPair(keygen + 1) = vchPubKey
                         THEN [KeyOfBytes(privkey.pair) EXCEPT
                                   !.cached = PubKey(vchPubKey)]
                         ELSE NullKey, 1)

\* j = k (key.h:122-142): key data and cache state are copied
CQKeyCopy(k, j) ==
    /\ k # j
    /\ CQKeyStep(j, [ckeys[k] EXCEPT !.returned = NoPubKey], 0)

\* j = std::move(k) (key.h:119-120): k is left with null keydata and cache
CQKeyMove(k, j) ==
    /\ k # j
    /\ ckeys' = [ckeys EXCEPT ![j] = [ckeys[k] EXCEPT !.returned = NoPubKey],
                              ![k] = NullKey]
    /\ UNCHANGED << keyVars, aggregatorVars, scaleVars, verifyVars,
                    task, manager, wallet >>

NextCQKey ==
    \/ CQKeyConstruct
    \/ \E k \in DOMAIN ckeys : CQKeyMakeNewKey(k)
    \/ \E k \in DOMAIN ckeys : CQKeyGetPubKey(k)
    \/ \E k \in DOMAIN ckeys, bytes \in KeyBytes : CQKeySet(k, bytes)
    \/ \E k \in DOMAIN ckeys, data \in KeyBytes : CQKeySetPrivKeyData(k, data)
    \/ \E k \in DOMAIN ckeys, privkey \in KeyBytes, n \in 1..keygen,
          fSkipCheck \in BOOLEAN :
          CQKeyLoad(k, privkey, PubKeyOfPair(n), fSkipCheck)
    \/ \E k, j \in DOMAIN ckeys : CQKeyCopy(k, j)
    \/ \E k, j \in DOMAIN ckeys : CQKeyMove(k, j)

SpecCQKey == Init /\ [][NextCQKey]_vars

\* C29: GetPubKey() is a function of the secret-key bytes: two valid CQKey
\* objects that compare equal (operator== compares the key data) return
\* equal public keys, whatever calls produced them and whatever their caches.
C29_PubKeyOfKeyData ==
    \A i, j \in DOMAIN ckeys :
        (/\ ckeys[i].keydata # -1
         /\ ckeys[i].keydata = ckeys[j].keydata
         /\ ckeys[i].returned.set /\ ckeys[j].returned.set)
            => ckeys[i].returned.vch = ckeys[j].returned.vch

(***************************************************************************)
(* SpecRange: the two aggregations on signatures whose bytes make the      *)
(* extracted components large: all bytes 0xFF (every component is 2^32 - 1 *)
(* and the uint32_t sum wraps from the second signature on), a component   *)
(* just above the modulus, and signatures of the primitive.                *)
(***************************************************************************)
RangeSignatures ==
    {ByteVec(3309, << >>, 255),
     ByteVec(3309, << 1, 224, 127, 0 >>, 127),
     SignatureOf(PKA, H1),
     ByteVec(120, << 255, 255, 255, 255 >>, 1)}

RangeEntries == {Entry(s, PKA, h) : s \in RangeSignatures, h \in {H1, H2}}

RECURSIVE RangeBatchesOfLen(_)
RangeBatchesOfLen(n) ==
    IF n = 0 THEN {EmptyBatch}
    ELSE {AppendEntry(b, e) : b \in RangeBatchesOfLen(n - 1), e \in RangeEntries}

InitRange ==
    /\ AggregatorInit
    /\ ScaleIdle
    /\ KeysIdle
    /\ SystemIdle
    /\ batch \in UNION {RangeBatchesOfLen(n) : n \in 1..MaxLen}
    /\ artifact = NoArtifact
    /\ vcall = NoCall
    /\ calls = NoThreads

NextRange ==
    \/ UltraAggregateBatch
    \/ ProtoAggregateBatch

SpecRange == InitRange /\ [][NextRange]_vars

\* the 4 bytes of response word w (0..7) in compressed_data, after the
\* magic byte and the count byte (aggregation_prototype.cpp:117-127)
ResponseWord(aggregated_data, w) == SubSeq(aggregated_data, 3 + 4 * w, 6 + 4 * w)

\* C30: every aggregated_z coefficient returned by UltraAggregate, and every
\* one of the 8 response words that the prototype Aggregate writes into
\* aggregated_data, is below 8380417, so that no output of an aggregation
\* fails the coefficient range check of UltraVerify.
C30_HonestOutputInRange ==
    /\ artifact.kind = "ultra"
          => \A i \in 1..Len(artifact.value.aggregated_z) :
                ~CoefficientOutOfRange(artifact.value.aggregated_z[i])
    /\ artifact.kind = "simple"
          => \A w \in 0..7 :
                ~CoefficientOutOfRange(ResponseWord(artifact.value.aggregated_data, w))

\* Aggregate() has returned for two signatures of bytes 0xFF: each component
\* is 2^32 - 1, the second sum wraps, and the first response word is not 0
C30_Witness ==
    /\ artifact.kind = "simple"
    /\ batch.signatures = << ByteVec(3309, << >>, 255), ByteVec(3309, << >>, 255) >>
    /\ ResponseWord(artifact.value.aggregated_data, 0) # << 0, 0, 0, 0 >>
=============================================================================
